---- MODULE Spec2Model ----
(***************************************************************************)
(* Multi-source PDF acquisition pipeline of Linglitter: the open-access    *)
(* adapter (scrape_pdfs.py), the repository adapter (scrape_repo.py) and   *)
(* the crawl adapter (scrape_openlibhum.py) working on one shared          *)
(* "articles" table and one data directory.                                *)
(*                                                                         *)
(* Time is a global integer clock.  One tick is the resolution of the      *)
(* model: the 0.5 s "human-like" sleeps of the code are below it and take  *)
(* zero ticks.  ISO timestamps (datetime.now().isoformat(), compared by    *)
(* SQL MAX on TEXT and parsed back by fromisoformat) are order-isomorphic  *)
(* to the clock and are kept as the integer tick they were taken at.       *)
(* Strings that the code rewrites character by character (DOIs, publisher  *)
(* and journal names) are tuples of one-character strings.                 *)
(***************************************************************************)
EXTENDS Integers, Sequences, FiniteSets, TLC

\* ------------------------------------------------------------------------
\* Bounds of the model
\* ------------------------------------------------------------------------
MaxTime == 2
MaxCrawlTime == 4
MaxRepoTime == 4
MaxSharedTime == 1
AttemptsCap == 4

\* ------------------------------------------------------------------------
\* Run parameters (config.json) used by the model
\* ------------------------------------------------------------------------
politeness_interval == 1
publisher_interval == 2
max_attempts == 2

\* ------------------------------------------------------------------------
\* Program constants
\* ------------------------------------------------------------------------
MinPdfSize == 1000
HTTP_OK == 200
HTTP_FORBIDDEN == 403
HTTP_NOT_FOUND == 404
HTTP_RATE_LIMITED == 429
NO_RESPONSE == 0

\* ------------------------------------------------------------------------
\* Null values (one per column type)
\* ------------------------------------------------------------------------
NullStr == "NULL"
NullTime == -1
NullPath == <<>>
NoDoi == <<>>
NoFile == [size |-> -1, magic |-> FALSE]

\* ------------------------------------------------------------------------
\* The catalogued articles (rows created by the metadata harvester)
\* ------------------------------------------------------------------------
\* D1 and D2 differ in one character, which encode_doi_for_filename rewrites.
D1 == <<"x", ".", "1">>
D2 == <<"x", "_", "1">>
DOIs == {D1, D2}

PubA == <<"A">>
PubB == <<"B">>
JrnG == <<"G">>
JrnL == <<"L">>
JrnX == <<"X">>

Biblio(publisher, journal, year) ==
  [publisher |-> publisher, journal |-> journal, year |-> year]

\* The catalogues the harvester may have left in the table: both articles in
\* the same journal and year; in different journals of different publishers;
\* the second one older than the configured year range and in a journal that
\* is neither on the allow-list nor crawled.
CatSame == [d \in DOIs |-> Biblio(PubA, JrnG, 2020)]
CatDiff == [d \in DOIs |-> IF d = D1 THEN Biblio(PubA, JrnG, 2020) ELSE Biblio(PubB, JrnL, 2021)]
CatOne == [d \in DOIs |-> IF d = D1 THEN Biblio(PubA, JrnG, 2020) ELSE Biblio(PubB, JrnX, 2019)]
Catalogues == {CatSame, CatDiff, CatOne}

Publishers == {c[d].publisher : c \in Catalogues, d \in DOIs}

cfg_years == <<2020, 2021>>
cfg_journals == {JrnG, JrnL}

\* ------------------------------------------------------------------------
\* Filesystem layout
\* ------------------------------------------------------------------------
DoiUnsafeChars == {"/", "\\", ":", "*", "?", "\"", "<", ">", "|", "."}
NameUnsafeChars == {"/", "\\", ":", "*", "?", "\"", "<", ">", "|"}

ReSub(unsafe, s) == [i \in DOMAIN s |-> IF s[i] \in unsafe THEN "_" ELSE s[i]]

encode_doi_for_filename(doi) == ReSub(DoiUnsafeChars, doi)

build_pdf_path(publisher, journal, year, doi) ==
  LET safe_doi == encode_doi_for_filename(doi)
      safe_publisher == IF Len(publisher) > 0 THEN ReSub(NameUnsafeChars, publisher)
                        ELSE <<"u", "n", "k", "n", "o", "w", "n">>
      safe_journal == IF Len(journal) > 0 THEN ReSub(NameUnsafeChars, journal)
                      ELSE <<"u", "n", "k", "n", "o", "w", "n">>
  IN <<safe_publisher, safe_journal, year, safe_doi \o <<".", "p", "d", "f">> >>

RowPath(row, d) == build_pdf_path(row.publisher, row.journal, row.year, d)
Paths == {build_pdf_path(c[d].publisher, c[d].journal, c[d].year, d) :
            c \in Catalogues, d \in DOIs}

\* ------------------------------------------------------------------------
\* State
\* ------------------------------------------------------------------------
VARIABLES
  articles,         \* doi -> acquisition fields of the row
  has_columns,      \* the articles table has the six acquisition columns
  data_dir_exists,  \* <data_dir> exists on disk
  disk,             \* path -> content of the file stored there
  now,              \* the clock
  oa,               \* run of the open-access adapter (scrape_pdfs.main)
  oa_hist,          \* history: time of the last non-skipped open-access attempt
  repo,             \* run of the repository adapter (scrape_repo.main)
  repo_failures,    \* _repo_failures of that run
  crawl,            \* run of the crawl adapter (scrape_openlibhum.crawl_journal)
  sessions,         \* _publisher_sessions and _repo_sessions of the running process
  ev                \* history: what the last step did

vars == <<articles, has_columns, data_dir_exists, disk, now, oa, oa_hist,
          repo, repo_failures, crawl, sessions, ev>>

\* A row as the harvester creates it: acquisition fields null or zero.
NewRow(b) == [publisher |-> b.publisher, journal |-> b.journal, year |-> b.year,
              availability |-> NullStr, source |-> NullStr, attempts |-> 0,
              response |-> 0, timestamp |-> NullTime, file |-> NullPath]
NoRow == NewRow(Biblio(<<>>, <<>>, 0))
PathOf(d) == RowPath(articles[d], d)

NoReqs == <<>>
\* A network request: what was asked, of whom, at what time; `failures` is the
\* target's failure counter when the request was sent (repository adapter only).
Req(kind, target, at, failures) ==
  [kind |-> kind, target |-> target, at |-> at, failures |-> failures]

NoEv == [adapter |-> "none", op |-> "none", result |-> "none", check |-> "none",
         doi |-> NoDoi, reqs |-> NoReqs]
Ev(adapter, op, result, check, doi, reqs) ==
  [adapter |-> adapter, op |-> op, result |-> result, check |-> check,
   doi |-> doi, reqs |-> reqs]

Max(S) == CHOOSE x \in S : \A y \in S : y <= x

\* ------------------------------------------------------------------------
\* Outcome Recorder
\* ------------------------------------------------------------------------
\* an update that writes the timestamp in a later statement, not in this one
update_article_in_two(arts, doi, availability, source, attempts, response, timestamp, file_path) ==
  [arts EXCEPT ![doi] = [@ EXCEPT !.availability = availability, !.source = source,
                                  !.attempts = attempts, !.response = response,
                                  !.file = file_path]]

update_article(arts, doi, availability, source, attempts, response, timestamp, file_path) ==
  [arts EXCEPT ![doi] = [@ EXCEPT !.availability = availability, !.source = source,
                                  !.attempts = attempts, !.response = response,
                                  !.timestamp = timestamp, !.file = file_path]]

\* a reader that forgets the stored count
get_article_attempts_forgotten(arts, doi) == 0
get_article_attempts(arts, doi) == arts[doi].attempts

\* ------------------------------------------------------------------------
\* Candidate Selector of the open-access adapter
\* ------------------------------------------------------------------------
get_random_candidate(arts, years, journals) ==
  {d \in DOIs : /\ arts[d].year >= years[1] /\ arts[d].year <= years[2]
                /\ arts[d].journal \in journals
                /\ arts[d].file = NullPath
                /\ (arts[d].availability = NullStr \/ arts[d].availability # "no-oa")}

\* ------------------------------------------------------------------------
\* Politeness Governor of the open-access adapter
\* ------------------------------------------------------------------------
get_last_global_timestamp(arts) ==
  LET ts == {arts[d].timestamp : d \in {x \in DOIs : arts[x].timestamp # NullTime}}
  IN IF ts = {} THEN NullTime ELSE Max(ts)

get_last_publisher_timestamp(arts, publisher) ==
  LET ts == {arts[d].timestamp :
               d \in {x \in DOIs : arts[x].publisher = publisher /\ arts[x].timestamp # NullTime}}
  IN IF ts = {} THEN NullTime ELSE Max(ts)

\* a governor that always allows
check_politeness_open(arts, publisher, t, global_interval, pub_interval) ==
  [ok |-> TRUE, wait |-> 0]
\* a check that looks at the global interval only
check_politeness_global(arts, publisher, t, global_interval, pub_interval) ==
  LET last_global == get_last_global_timestamp(arts)
  IN IF last_global # NullTime /\ t - last_global < global_interval
       THEN [ok |-> FALSE, wait |-> global_interval - (t - last_global)]
     ELSE [ok |-> TRUE, wait |-> 0]
\* a check that looks at the publisher interval before the global one
check_politeness_publisher_first(arts, publisher, t, global_interval, pub_interval) ==
  LET last_global == get_last_global_timestamp(arts)
      last_pub == get_last_publisher_timestamp(arts, publisher)
  IN IF last_pub # NullTime /\ t - last_pub < pub_interval
       THEN [ok |-> FALSE, wait |-> pub_interval - (t - last_pub)]
     ELSE IF last_global # NullTime /\ t - last_global < global_interval
       THEN [ok |-> FALSE, wait |-> global_interval - (t - last_global)]
     ELSE [ok |-> TRUE, wait |-> 0]
check_politeness(arts, publisher, t, global_interval, pub_interval) ==
  LET last_global == get_last_global_timestamp(arts)
      last_pub == get_last_publisher_timestamp(arts, publisher)
  IN IF last_global # NullTime /\ t - last_global < global_interval
       THEN [ok |-> FALSE, wait |-> global_interval - (t - last_global)]
     ELSE IF last_pub # NullTime /\ t - last_pub < pub_interval
       THEN [ok |-> FALSE, wait |-> pub_interval - (t - last_pub)]
     ELSE [ok |-> TRUE, wait |-> 0]

\* ------------------------------------------------------------------------
\* Open-access lookup service (Unpaywall)
\* ------------------------------------------------------------------------
NoLoc == [present |-> FALSE, url_for_pdf |-> NullStr,
          url_for_landing_page |-> NullStr, url |-> NullStr]
Loc(pdf, landing, url) == [present |-> TRUE, url_for_pdf |-> pdf,
                           url_for_landing_page |-> landing, url |-> url]

\* What the service may answer to one lookup.
LookupError == [err |-> TRUE, status |-> 0, is_oa |-> FALSE,
                best |-> NoLoc, oa_locations |-> <<>>]
LookupReply(status, is_oa, best, locs) ==
  [err |-> FALSE, status |-> status, is_oa |-> is_oa, best |-> best, oa_locations |-> locs]

LookupReplies ==
  { LookupError,
    LookupReply(HTTP_RATE_LIMITED, FALSE, NoLoc, <<>>),
    LookupReply(HTTP_OK, FALSE, NoLoc, <<>>),
    LookupReply(HTTP_OK, TRUE, NoLoc, <<>>),
    LookupReply(HTTP_OK, TRUE, Loc("pdf1", "land1", NullStr), <<>>),
    LookupReply(HTTP_OK, TRUE, Loc(NullStr, "land1", NullStr),
                <<Loc(NullStr, NullStr, "url2"), Loc("pdf1", NullStr, NullStr)>>) }

PyOr(a, b) == IF a # NullStr THEN a ELSE b

\* for loc in oa_locations: assign pdf_url, landing_url; stop at a usable pdf_url
RECURSIVE ScanLocations(_, _, _)
ScanLocations(locs, pdf_url, landing_url) ==
  IF locs = <<>> THEN [pdf_url |-> pdf_url, landing_url |-> landing_url]
  ELSE LET loc == Head(locs)
           p == loc.url_for_pdf
           l == PyOr(loc.url_for_landing_page, loc.url)
       IN IF p # NullStr THEN [pdf_url |-> p, landing_url |-> l]
          ELSE ScanLocations(Tail(locs), p, l)

\* a lookup that never reports open access and drops the status code
query_unpaywall_blind(mailto, reply) ==
  [is_oa |-> FALSE, pdf_url |-> NullStr, landing_url |-> NullStr,
   response_code |-> NO_RESPONSE, requested |-> mailto]

query_unpaywall(mailto, reply) ==
  LET none(code) == [is_oa |-> FALSE, pdf_url |-> NullStr, landing_url |-> NullStr,
                     response_code |-> code, requested |-> mailto]
  IN IF ~mailto THEN none(NO_RESPONSE)
     ELSE IF reply.err THEN none(NO_RESPONSE)
     ELSE IF reply.status = HTTP_NOT_FOUND THEN none(reply.status)
     ELSE IF reply.status # HTTP_OK THEN none(reply.status)
     ELSE IF ~reply.is_oa
       THEN [is_oa |-> FALSE, pdf_url |-> NullStr, landing_url |-> NullStr,
             response_code |-> reply.status, requested |-> TRUE]
     ELSE LET b_pdf == IF reply.best.present THEN reply.best.url_for_pdf ELSE NullStr
              b_land == IF reply.best.present
                        THEN PyOr(reply.best.url_for_landing_page, reply.best.url)
                        ELSE NullStr
              found == IF b_pdf = NullStr
                       THEN ScanLocations(reply.oa_locations, b_pdf, b_land)
                       ELSE [pdf_url |-> b_pdf, landing_url |-> b_land]
          IN [is_oa |-> TRUE, pdf_url |-> found.pdf_url, landing_url |-> found.landing_url,
              response_code |-> reply.status, requested |-> TRUE]

\* ------------------------------------------------------------------------
\* What a server may answer to the GET of a PDF
\* ------------------------------------------------------------------------
Body(size, magic) == [size |-> size, magic |-> magic]

\* err: the GET raised; html: declared content type contains "html";
\* cut: the stream raised after `body` had been written to disk.
PdfReply(err, status, html, cut, body) ==
  [err |-> err, status |-> status, html |-> html, cut |-> cut, body |-> body]

PdfReplies ==
  { PdfReply(TRUE, 0, FALSE, FALSE, Body(0, FALSE)),
    PdfReply(FALSE, HTTP_RATE_LIMITED, TRUE, FALSE, Body(0, FALSE)),
    PdfReply(FALSE, HTTP_OK, TRUE, FALSE, Body(MinPdfSize, FALSE)),
    PdfReply(FALSE, HTTP_OK, FALSE, TRUE, Body(MinPdfSize, TRUE)),
    PdfReply(FALSE, HTTP_OK, FALSE, FALSE, Body(MinPdfSize - 1, TRUE)),
    PdfReply(FALSE, HTTP_OK, FALSE, FALSE, Body(MinPdfSize, FALSE)),
    PdfReply(FALSE, HTTP_OK, FALSE, FALSE, Body(MinPdfSize, TRUE)) }

EmptyDisk == [p \in Paths |-> NoFile]
Unlink(d, path) == [d EXCEPT ![path] = NoFile]
WriteFile(d, path, body) == [d EXCEPT ![path] = body]

AnyPdfReply == PdfReply(TRUE, 0, FALSE, FALSE, Body(0, FALSE))
\* the replies to distinguish after a lookup: all of them when it names a PDF
PdfRepliesAfter(lr) ==
  IF query_unpaywall(TRUE, lr).pdf_url # NullStr THEN PdfReplies ELSE {AnyPdfReply}

\* scrape_pdfs.download_pdf: (success, http_status_code) and the disk afterwards
download_pdf(d, dest_path, reply) ==
  IF reply.err THEN [success |-> FALSE, code |-> NO_RESPONSE, disk |-> d]
  ELSE IF reply.status # HTTP_OK THEN [success |-> FALSE, code |-> reply.status, disk |-> d]
  ELSE IF reply.html THEN [success |-> FALSE, code |-> HTTP_FORBIDDEN, disk |-> d]
  ELSE IF reply.cut
    THEN [success |-> FALSE, code |-> NO_RESPONSE, disk |-> WriteFile(d, dest_path, reply.body)]
  ELSE LET written == WriteFile(d, dest_path, reply.body)
       IN IF written[dest_path].size < MinPdfSize
            THEN [success |-> FALSE, code |-> reply.status, disk |-> Unlink(written, dest_path)]
          ELSE IF ~written[dest_path].magic
            THEN [success |-> FALSE, code |-> HTTP_FORBIDDEN, disk |-> Unlink(written, dest_path)]
          ELSE [success |-> TRUE, code |-> reply.status, disk |-> written]

\* ------------------------------------------------------------------------
\* Open-access adapter: one attempt (scrape_pdfs.process_one)
\* ------------------------------------------------------------------------
Outcome(result, check, arts, d, reqs) ==
  [result |-> result, check |-> check, articles |-> arts, disk |-> d, reqs |-> reqs]

pdfs_process_one(arts, d, t, dry_run, doi, lookup_reply, pdf_reply) ==
  LET publisher == arts[doi].publisher
      attempts0 == get_article_attempts(arts, doi)
      pol == check_politeness(arts, publisher, t, politeness_interval, publisher_interval)
      result == query_unpaywall(TRUE, lookup_reply)
      attempts == attempts0 + 1
      lookup_req == IF result.requested THEN <<Req("lookup", "unpaywall", t, 0)>> ELSE <<>>
      pdf_url == result.pdf_url
      landing_url == result.landing_url
      abs_path == build_pdf_path(publisher, arts[doi].journal, arts[doi].year, doi)
      dl == download_pdf(d, abs_path, pdf_reply)
      dl_reqs == (IF landing_url # NullStr THEN <<Req("landing", "publisher", t, 0)>> ELSE <<>>)
                 \o <<Req("pdf", "publisher", t, 0)>>
  IN IF attempts0 >= max_attempts THEN Outcome("exhausted", "attempts", arts, d, NoReqs)
     ELSE IF ~pol.ok THEN Outcome("skipped", "politeness", arts, d, NoReqs)
     ELSE IF dry_run THEN Outcome("skipped", "dry_run", arts, d, NoReqs)
     ELSE IF ~result.is_oa
       THEN Outcome("no-oa", "none",
                    update_article(arts, doi, "no-oa", NullStr, attempts,
                                   result.response_code, t, NullPath),
                    d, lookup_req)
     ELSE IF pdf_url = NullStr
       THEN Outcome("failed", "locate",
                    update_article(arts, doi, "oa", NullStr, attempts,
                                   result.response_code, t, NullPath),
                    d, lookup_req)
     ELSE IF dl.success
       THEN Outcome("downloaded", "none",
                    update_article(arts, doi, "oa", pdf_url, attempts, dl.code, t, abs_path),
                    dl.disk, lookup_req \o dl_reqs)
     ELSE Outcome("failed", "download",
                  update_article(arts, doi, "oa", pdf_url, attempts, dl.code, t, NullPath),
                  dl.disk, lookup_req \o dl_reqs)

\* ------------------------------------------------------------------------
\* Session caches (_publisher_sessions, _repo_sessions)
\* ------------------------------------------------------------------------
\* Header names of the two header sets.
CURL_HEADERS == {"User-Agent", "Accept"}
BROWSER_HEADERS ==
  {"User-Agent", "Accept", "Accept-Language", "Accept-Encoding", "DNT", "Sec-GPC",
   "Connection", "Upgrade-Insecure-Requests", "Sec-Fetch-Dest", "Sec-Fetch-Mode",
   "Sec-Fetch-Site", "Sec-Fetch-User", "Priority"}

\* A cache maps an origin key to (session, last_used); id tells the session
\* objects apart, headers is session.headers.
NoSession == [id |-> 0, headers |-> {}, last_used |-> NullTime]
Created(cache) == {k \in DOMAIN cache : cache[k] # NoSession}
EmptyCache(keys) == [k \in keys |-> NoSession]

\* an acquisition that never finds the key in the cache
GetOrCreateFresh(cache, key, t, headers) ==
  LET session == [id |-> Cardinality(Created(cache)) + 1, headers |-> headers,
                  last_used |-> t]
  IN [cache |-> [cache EXCEPT ![key] = session], session |-> session.id,
      is_new |-> TRUE, elapsed |-> NullTime]
\* the body shared by get_publisher_session and get_repo_session
GetOrCreate(cache, key, t, headers) ==
  IF cache[key] = NoSession
    THEN LET session == [id |-> Cardinality(Created(cache)) + 1, headers |-> headers,
                         last_used |-> t]
         IN [cache |-> [cache EXCEPT ![key] = session], session |-> session.id,
             is_new |-> TRUE, elapsed |-> NullTime]
  ELSE [cache |-> [cache EXCEPT ![key].last_used = t], session |-> cache[key].id,
        is_new |-> FALSE, elapsed |-> t - cache[key].last_used]

get_publisher_session(cache, publisher, t) == GetOrCreate(cache, publisher, t, BROWSER_HEADERS)
get_repo_session(cache, repo_url, t) == GetOrCreate(cache, repo_url, t, CURL_HEADERS)

\* session.headers[name] = value
SetHeader(cache, key, name) == [cache EXCEPT ![key].headers = @ \cup {name}]

\* The publisher cache after process_one sent `reqs`: the session is acquired
\* right before download_pdf, which sets Referer, Sec-Fetch-Site and Accept.
pdfs_sessions_after(cache, publisher, reqs, t) ==
  IF \E i \in DOMAIN reqs : reqs[i].kind = "pdf"
    THEN SetHeader(get_publisher_session(cache, publisher, t).cache, publisher, "Referer")
  ELSE cache

\* The repository cache after the first i requests of process_one: the
\* session is acquired before each landing fetch; download_pdf_direct sets
\* Referer on it before the PDF request.
RECURSIVE repo_sessions_after(_, _, _)
repo_sessions_after(cache, reqs, i) ==
  IF i = 0 THEN cache
  ELSE LET before == repo_sessions_after(cache, reqs, i - 1)
           r == reqs[i]
       IN IF r.kind = "landing" THEN get_repo_session(before, r.target, r.at).cache
          ELSE SetHeader(before, r.target, "Referer")

\* session.headers when the i-th request of process_one is sent
repo_request_headers(cache, reqs, i) ==
  repo_sessions_after(cache, reqs, i)[reqs[i].target].headers

\* ------------------------------------------------------------------------
\* Open-access adapter: the run (scrape_pdfs.main)
\* ------------------------------------------------------------------------
MaxLimit == 2
Limits == 0..MaxLimit      \* 0: no --limit

IdleRun == [pc |-> "idle", dry_run |-> FALSE, continuous |-> FALSE, limit |-> 0,
            processed |-> 0, wake |-> 0]

\* the loop of main after process_one returned `result`
\* a loop that does not look at --continuous
pdfs_main_loop_on(run, result, t) ==
  IF result = "none" THEN IdleRun
  ELSE IF result = "skipped" THEN [run EXCEPT !.wake = t]
  ELSE LET processed == run.processed + 1
       IN IF run.limit # 0 /\ processed >= run.limit THEN IdleRun
          ELSE [run EXCEPT !.processed = processed, !.wake = t + politeness_interval]

pdfs_main_loop(run, result, t) ==
  IF result = "none" THEN IdleRun
  ELSE IF result = "skipped" THEN [run EXCEPT !.wake = t]
  ELSE LET processed == run.processed + 1
       IN IF run.limit # 0 /\ processed >= run.limit THEN IdleRun
          ELSE IF ~run.continuous /\ result \in {"downloaded", "no-oa", "failed"} THEN IdleRun
          ELSE [run EXCEPT !.processed = processed, !.wake = t + politeness_interval]

Attempted(out) == out.result \in {"no-oa", "failed", "downloaded"}

\* the replies to distinguish in one attempt: all of them when the attempt
\* passes the gates and queries the lookup service
LookupRepliesFor(arts, d, t, dry_run, doi) ==
  IF Attempted(pdfs_process_one(arts, d, t, dry_run, doi, LookupError, AnyPdfReply))
    THEN LookupReplies ELSE {LookupError}

OAStart ==
  /\ oa.pc = "idle"
  /\ \E dry \in BOOLEAN, cont \in BOOLEAN, lim \in Limits :
       oa' = [pc |-> "running", dry_run |-> dry, continuous |-> cont, limit |-> lim,
              processed |-> 0, wake |-> now]
  /\ has_columns' = TRUE          \* ensure_schema(conn)
  /\ data_dir_exists' = TRUE      \* data_dir.mkdir(parents=True, exist_ok=True)
  /\ sessions' = [sessions EXCEPT !.publisher = EmptyCache(Publishers)]   \* a new process
  /\ ev' = Ev("oa", "start", "none", "none", NoDoi, NoReqs)
  /\ UNCHANGED <<articles, disk, now, oa_hist, repo, repo_failures, crawl>>

OAStep ==
  /\ oa.pc = "running"
  /\ now >= oa.wake
  /\ LET cands == get_random_candidate(articles, cfg_years, cfg_journals)
     IN IF cands = {}
          THEN /\ oa' = pdfs_main_loop(oa, "none", now)
               /\ sessions' = [sessions EXCEPT !.publisher = EmptyCache(Publishers)]
               /\ ev' = Ev("oa", "step", "none", "none", NoDoi, NoReqs)
               /\ UNCHANGED <<articles, disk, oa_hist>>
          ELSE \E doi \in cands :
               \E lr \in LookupRepliesFor(articles, disk, now, oa.dry_run, doi) :
               \E pr \in PdfRepliesAfter(lr) :
                 LET out == pdfs_process_one(articles, disk, now, oa.dry_run, doi, lr, pr)
                     pub == articles[doi].publisher
                     run == pdfs_main_loop(oa, out.result, now)
                 IN /\ articles' = out.articles
                    /\ disk' = out.disk
                    /\ oa' = run
                    /\ sessions' = [sessions EXCEPT !.publisher =
                                      IF run.pc = "idle" THEN EmptyCache(Publishers)
                                      ELSE pdfs_sessions_after(@, pub, out.reqs, now)]
                    /\ oa_hist' = IF Attempted(out)
                                  THEN [global |-> now, pub |-> [oa_hist.pub EXCEPT ![pub] = now]]
                                  ELSE oa_hist
                    /\ ev' = Ev("oa", "step", out.result, out.check, doi, out.reqs)
  /\ UNCHANGED <<has_columns, data_dir_exists, now, repo, repo_failures, crawl>>


\* ------------------------------------------------------------------------
\* Repository adapter (scrape_repo.py)
\* ------------------------------------------------------------------------
cfg_repos == <<"repoA", "repoB">>
RepoSet == {cfg_repos[i] : i \in DOMAIN cfg_repos}
max_repo_failures == 2
politeness_min == 1

record_repo_failure(failures, repo_url) == [failures EXCEPT ![repo_url] = @ + 1]
get_repo_failures(failures, repo_url) == failures[repo_url]
is_repo_disabled(failures, repo_url, max_failures) == failures[repo_url] >= max_failures
\* a list that keeps disabled repositories
get_active_repos_unfiltered(failures, repos, max_failures) == repos
get_active_repos(failures, repos, max_failures) ==
  SelectSeq(repos, LAMBDA r : ~is_repo_disabled(failures, r, max_failures))

\* a selector without the availability condition
get_random_nonoa_candidate_any(arts, years, journals) ==
  {d \in DOIs : /\ arts[d].year >= years[1] /\ arts[d].year <= years[2]
                /\ arts[d].journal \in journals
                /\ arts[d].file = NullPath}
get_random_nonoa_candidate(arts, years, journals) ==
  {d \in DOIs : /\ arts[d].year >= years[1] /\ arts[d].year <= years[2]
                /\ arts[d].journal \in journals
                /\ arts[d].file = NullPath
                /\ arts[d].availability = "no-oa"}

\* A landing page: whether it holds a <div class="download"> and the href of
\* the <a> inside it, if any.
Html(div, href) == [div |-> div, href |-> href]
\* an extractor that reports a link on every page
extract_download_link_any(html) == "/dl"
extract_download_link(html) ==
  IF ~html.div THEN NullStr
  ELSE IF html.href = NullStr THEN NullStr
  ELSE html.href

\* What a repository may answer to the GET of a landing page.
LandingReply(err, status, html) == [err |-> err, status |-> status, html |-> html]
fetch_landing_page(reply) ==
  IF reply.err THEN [html |-> Html(FALSE, NullStr), ok |-> FALSE, code |-> NO_RESPONSE]
  ELSE IF reply.status # HTTP_OK
    THEN [html |-> Html(FALSE, NullStr), ok |-> FALSE, code |-> reply.status]
  ELSE [html |-> reply.html, ok |-> TRUE, code |-> reply.status]

\* scrape_repo.download_pdf_direct
download_pdf_direct(d, dest_path, reply) ==
  IF reply.err THEN [success |-> FALSE, code |-> NO_RESPONSE, disk |-> d]
  ELSE IF reply.status # HTTP_OK THEN [success |-> FALSE, code |-> reply.status, disk |-> d]
  ELSE IF reply.html THEN [success |-> FALSE, code |-> HTTP_FORBIDDEN, disk |-> d]
  ELSE IF reply.cut
    THEN [success |-> FALSE, code |-> NO_RESPONSE, disk |-> WriteFile(d, dest_path, reply.body)]
  ELSE LET written == WriteFile(d, dest_path, reply.body)
       IN IF written[dest_path].size < MinPdfSize
            THEN [success |-> FALSE, code |-> reply.status, disk |-> Unlink(written, dest_path)]
          ELSE IF ~written[dest_path].magic
            THEN [success |-> FALSE, code |-> HTTP_FORBIDDEN, disk |-> Unlink(written, dest_path)]
          ELSE [success |-> TRUE, code |-> reply.status, disk |-> written]

\* What one repository answers during one attempt: its landing page and,
\* if that is asked for, the PDF.
RepoReply(landing, pdf) == [landing |-> landing, pdf |-> pdf]
RepoReplies ==
  { RepoReply(LandingReply(TRUE, 0, Html(FALSE, NullStr)), AnyPdfReply),
    RepoReply(LandingReply(FALSE, HTTP_RATE_LIMITED, Html(TRUE, "/dl")), AnyPdfReply),
    RepoReply(LandingReply(FALSE, HTTP_OK, Html(FALSE, NullStr)), AnyPdfReply),
    RepoReply(LandingReply(FALSE, HTTP_OK, Html(TRUE, NullStr)), AnyPdfReply) }
  \cup { RepoReply(LandingReply(FALSE, HTTP_OK, Html(TRUE, "/dl")), pr) : pr \in PdfReplies }

AnyRepoReply == RepoReply(LandingReply(TRUE, 0, Html(FALSE, NullStr)), AnyPdfReply)
\* after this reply process_one goes on to the next repository
GivesUp(reply) ==
  LET landing == fetch_landing_page(reply.landing)
  IN \/ ~landing.ok
     \/ /\ extract_download_link(landing.html) # NullStr
        /\ \A p \in Paths : ~download_pdf_direct(EmptyDisk, p, reply.pdf).success
\* process_one asks repository r when all active repositories before it gave up
Asked(replies, active_repos, r) ==
  \E i \in DOMAIN active_repos :
    /\ active_repos[i] = r
    /\ \A j \in 1..(i - 1) : GivesUp(replies[active_repos[j]])
\* the replies to distinguish in one attempt: those of the repositories asked
RepoRepliesFor(dry_run, active_repos) ==
  {f \in [RepoSet -> RepoReplies] :
     \A r \in RepoSet : (dry_run \/ ~Asked(f, active_repos, r)) => f[r] = AnyRepoReply}

RepoOutcome(result, arts, d, failures, reqs, t) ==
  [result |-> result, check |-> "none", articles |-> arts, disk |-> d,
   failures |-> failures, reqs |-> reqs, now |-> t]

\* The "for i, repo_url in enumerate(active_repos)" loop of process_one from
\* index i on.  now0 is the time taken before the loop, t the current time.
RECURSIVE repo_try(_, _, _, _, _, _, _, _, _, _)
repo_try(arts, d, failures, reqs, t, now0, doi, active_repos, i, replies) ==
  LET attempts == get_article_attempts(arts, doi)
      abs_path == build_pdf_path(arts[doi].publisher, arts[doi].journal, arts[doi].year, doi)
  IN IF i > Len(active_repos)
       THEN RepoOutcome("failed",
                        update_article(arts, doi, "no-oa", NullStr, attempts + 1,
                                       NO_RESPONSE, now0, NullPath),
                        d, failures, reqs, t)
     ELSE
       LET repo_url == active_repos[i]
           landing == fetch_landing_page(replies[repo_url].landing)
           reqs1 == Append(reqs, Req("landing", repo_url, t, get_repo_failures(failures, repo_url)))
           download_href == extract_download_link(landing.html)
           dl == download_pdf_direct(d, abs_path, replies[repo_url].pdf)
           reqs2 == Append(reqs1, Req("pdf", repo_url, t, get_repo_failures(failures, repo_url)))
           failed == record_repo_failure(failures, repo_url)
           t_next == IF i < Len(active_repos) THEN t + politeness_min ELSE t
       IN IF ~landing.ok
            THEN repo_try(arts, d, failed, reqs1, t_next, now0, doi, active_repos, i + 1, replies)
          ELSE IF download_href = NullStr
            THEN RepoOutcome("no_download_link",
                             update_article(arts, doi, "no-oa", NullStr, attempts + 1,
                                            landing.code, now0, NullPath),
                             d, failures, reqs1, t)
          ELSE IF dl.success
            THEN RepoOutcome("downloaded",
                             update_article(arts, doi, "repo", repo_url \o download_href, attempts + 1,
                                            dl.code, now0, abs_path),
                             dl.disk, failures, reqs2, t)
          ELSE repo_try(arts, dl.disk, failed, reqs2, t_next, now0, doi, active_repos,
                        i + 1, replies)

\* an attempt that does not look at dry_run
repo_process_one_wet(arts, d, failures, t, dry_run, doi, replies) ==
  repo_try(arts, d, failures, NoReqs, t, t, doi,
           get_active_repos(failures, cfg_repos, max_repo_failures), 1, replies)
repo_process_one(arts, d, failures, t, dry_run, doi, replies) ==
  LET active_repos == get_active_repos(failures, cfg_repos, max_repo_failures)
  IN IF dry_run
       THEN [RepoOutcome("skipped", arts, d, failures, NoReqs, t) EXCEPT !.check = "dry_run"]
     ELSE repo_try(arts, d, failures, NoReqs, t, t, doi, active_repos, 1, replies)

\* the loop of scrape_repo.main after process_one returned `result`
repo_main_loop(run, result, t) ==
  IF result \in {"none", "all_disabled", "crash"} THEN IdleRun
  ELSE IF result = "skipped" THEN [run EXCEPT !.wake = t]
  ELSE LET processed == run.processed + 1
       IN IF run.limit # 0 /\ processed >= run.limit THEN IdleRun
          ELSE IF ~run.continuous /\ result \in {"downloaded", "failed", "no_download_link"}
            THEN IdleRun
          ELSE [run EXCEPT !.processed = processed, !.wake = t + politeness_min]

NoFailures == [r \in RepoSet |-> 0]

RepoStart ==
  /\ repo.pc = "idle"
  /\ \E dry \in BOOLEAN, cont \in BOOLEAN, lim \in Limits :
       repo' = [pc |-> "running", dry_run |-> dry, continuous |-> cont, limit |-> lim,
                processed |-> 0, wake |-> now]
  /\ repo_failures' = NoFailures
  /\ sessions' = [sessions EXCEPT !.repo = EmptyCache(RepoSet)]   \* a new process
  /\ data_dir_exists' = TRUE      \* data_dir.mkdir(parents=True, exist_ok=True)
  /\ ev' = Ev("repo", "start", "none", "none", NoDoi, NoReqs)
  /\ UNCHANGED <<articles, has_columns, disk, now, oa, oa_hist, crawl>>

RepoStep ==
  /\ repo.pc = "running"
  /\ now >= repo.wake
  /\ LET active_repos == get_active_repos(repo_failures, cfg_repos, max_repo_failures)
         cands == get_random_nonoa_candidate(articles, cfg_years, cfg_journals)
         stop(result) ==
           /\ repo' = repo_main_loop(repo, result, now)
           /\ sessions' = [sessions EXCEPT !.repo = EmptyCache(RepoSet)]
           /\ ev' = Ev("repo", "step", result, "none", NoDoi, NoReqs)
           /\ UNCHANGED <<articles, disk, repo_failures, now>>
     IN IF active_repos = <<>> THEN stop("all_disabled")
        ELSE IF ~has_columns THEN stop("crash")    \* no such column: file
        ELSE IF cands = {} THEN stop("none")
        ELSE \E doi \in cands, replies \in RepoRepliesFor(repo.dry_run, active_repos) :
               LET out == repo_process_one(articles, disk, repo_failures, now,
                                           repo.dry_run, doi, replies)
                   run == repo_main_loop(repo, out.result, out.now)
               IN /\ articles[doi].attempts < AttemptsCap
                  /\ articles' = out.articles
                  /\ disk' = out.disk
                  /\ repo_failures' = out.failures
                  /\ now' = out.now
                  /\ repo' = run
                  /\ sessions' = [sessions EXCEPT !.repo =
                                    IF run.pc = "idle" THEN EmptyCache(RepoSet)
                                    ELSE repo_sessions_after(@, out.reqs, Len(out.reqs))]
                  /\ ev' = Ev("repo", "step", out.result, out.check, doi, out.reqs)
  /\ UNCHANGED <<has_columns, data_dir_exists, oa, oa_hist, crawl>>

\* ------------------------------------------------------------------------
\* Crawl adapter (scrape_openlibhum.py)
\* ------------------------------------------------------------------------
\* A URL: scheme, host, path segments and fragment.
Url(scheme, host, path, frag) == [scheme |-> scheme, host |-> host, path |-> path, frag |-> frag]

cfg_domain == "j"
cfg_start_url == Url("https", cfg_domain, <<"issues">>, "")
cfg_db_journal == JrnG
crawl_politeness == 1

\* url.startswith(article_prefix), article_prefix being https://<domain>/article/
StartsWithArticlePrefix(url) ==
  url.scheme = "https" /\ url.host = cfg_domain /\ Len(url.path) > 0 /\ url.path[1] = "article"
\* '/article/' in link, '/issue/' in link
Contains(url, segment) == \E i \in DOMAIN url.path : url.path[i] = segment

\* An <a href>: an in-page anchor, a javascript: link, or a link that urljoin
\* resolves to `url`.
Href(kind, url) == [kind |-> kind, url |-> url]

\* an extractor that keeps the links to every host
extract_internal_links_anywhere(hrefs, domain) ==
  LET keep(h) == h.kind = "url"
      normalized(h) == Url("https", h.url.host, h.url.path, "")
      kept == SelectSeq(hrefs, keep)
  IN [i \in DOMAIN kept |-> normalized(kept[i])]
extract_internal_links(hrefs, domain) ==
  LET keep(h) == h.kind = "url" /\ h.url.host = domain
      normalized(h) == Url("https", h.url.host, h.url.path, "")
      kept == SelectSeq(hrefs, keep)
  IN [i \in DOMAIN kept |-> normalized(kept[i])]

link_priority(link) ==
  IF Contains(link, "article") THEN 0
  ELSE IF Contains(link, "issue") THEN 1
  ELSE 2

\* no sort: the links in page order
SortByPriorityNone(links) == links
\* new_links.sort(key=link_priority, reverse=True): stable, descending key
SortByPriorityDesc(links) ==
  SelectSeq(links, LAMBDA l : link_priority(l) = 2)
    \o SelectSeq(links, LAMBDA l : link_priority(l) = 1)
    \o SelectSeq(links, LAMBDA l : link_priority(l) = 0)

\* The share-link field of an article page and the DOI taken from it.
DoiOrg == <<"d", "o", "i", ".", "o", "r", "g", "/">>
ShareLink(doi) == <<"h", "t", "t", "p", "s", ":", "/", "/">> \o DoiOrg \o doi
NoShareLink == <<>>

Occurrences(str, pat) ==
  {i \in 1..Len(str) : /\ i + Len(pat) - 1 <= Len(str)
                       /\ SubSeq(str, i, i + Len(pat) - 1) = pat}

extract_doi_from_page(share_link) ==
  IF share_link = NoShareLink THEN NoDoi
  ELSE IF Occurrences(share_link, DoiOrg) # {}
    THEN SubSeq(share_link, Max(Occurrences(share_link, DoiOrg)) + Len(DoiOrg),
                Len(share_link))
  ELSE share_link

\* The journal's website: the links of each listing page, and the DOI each
\* article page names.  D3 is an article of the site that is not catalogued.
D3 == <<"z">>
PathIssues == <<"issues">>
PathIssue1 == <<"issue", "1">>
PathAbout == <<"about">>
PathArticle(n) == <<"article", n>>

SiteLinks(path) ==
  IF path = PathIssues
    THEN << Href("anchor", Url("https", cfg_domain, PathIssues, "top")),
            Href("url", Url("https", cfg_domain, PathArticle("1"), "")),
            Href("url", Url("https", cfg_domain, PathAbout, "")),
            Href("url", Url("https", "elsewhere", PathArticle("9"), "")),
            Href("url", Url("https", cfg_domain, PathIssue1, "")) >>
  ELSE IF path = PathIssue1
    THEN << Href("url", Url("http", cfg_domain, PathArticle("2"), "pdf")),
            Href("url", Url("https", cfg_domain, PathArticle("3"), "")),
            Href("url", Url("https", cfg_domain, PathAbout, "")),
            Href("url", Url("https", cfg_domain, PathIssues, "")) >>
  ELSE << >>

SiteShareLink(path) ==
  IF path = PathArticle("1") THEN ShareLink(D1)
  ELSE IF path = PathArticle("2") THEN ShareLink(D2)
  ELSE IF path = PathArticle("3") THEN ShareLink(D3)
  ELSE NoShareLink

\* What the site may answer to the GET of a page: a network error, a non-200
\* status, or the page; an article page may lack its share link or its
\* "Download PDF" link.
PageReply(err, status, share, pdf_href) ==
  [err |-> err, status |-> status, share |-> share, pdf_href |-> pdf_href]
PageReplies ==
  { PageReply(TRUE, 0, TRUE, "/pdf"),
    PageReply(FALSE, HTTP_RATE_LIMITED, TRUE, "/pdf"),
    PageReply(FALSE, HTTP_OK, FALSE, "/pdf"),
    PageReply(FALSE, HTTP_OK, TRUE, NullStr),
    PageReply(FALSE, HTTP_OK, TRUE, "/pdf") }

get_journal_dois(arts, db_journal) ==
  {d \in DOIs : arts[d].journal = db_journal /\ arts[d].file = NullPath}

extract_pdf_link(page) == page.pdf_href

\* scrape_openlibhum.download_pdf
olh_download_pdf(d, dest_path, reply) ==
  IF reply.err THEN [success |-> FALSE, code |-> NO_RESPONSE, disk |-> d]
  ELSE IF reply.status # HTTP_OK THEN [success |-> FALSE, code |-> reply.status, disk |-> d]
  ELSE IF reply.html THEN [success |-> FALSE, code |-> HTTP_FORBIDDEN, disk |-> d]
  ELSE IF reply.cut
    THEN [success |-> FALSE, code |-> NO_RESPONSE, disk |-> WriteFile(d, dest_path, reply.body)]
  ELSE LET written == WriteFile(d, dest_path, reply.body)
       IN IF written[dest_path].size < MinPdfSize
            THEN [success |-> FALSE, code |-> reply.status, disk |-> Unlink(written, dest_path)]
          ELSE IF ~written[dest_path].magic
            THEN [success |-> FALSE, code |-> HTTP_FORBIDDEN, disk |-> Unlink(written, dest_path)]
          ELSE [success |-> TRUE, code |-> reply.status, disk |-> written]

\* `attempted` is a history field: the downloads tried so far in this run.
IdleCrawl == [pc |-> "idle", dry_run |-> FALSE, limit |-> 0, needed_dois |-> {},
              downloaded_dois |-> {}, visited_urls |-> {}, stack |-> <<>>,
              downloaded |-> 0, attempted |-> 0, wake |-> 0]

CrawlOutcome(result, check, run, arts, d, doi, reqs) ==
  [result |-> result, check |-> check, run |-> run, articles |-> arts, disk |-> d,
   doi |-> doi, reqs |-> reqs]

\* The article part of an iteration: the page at `url` was fetched with
\* status 200 and url starts with the article prefix.
crawl_article(run, arts, d, t, url, page, pdf, page_req) ==
  LET slept == [run EXCEPT !.wake = t + crawl_politeness]
      doi == extract_doi_from_page(IF page.share THEN SiteShareLink(url.path) ELSE NoShareLink)
      pdf_href == extract_pdf_link(page)
      article == arts[doi]
      abs_path == build_pdf_path(article.publisher, article.journal, article.year, doi)
      attempts == article.attempts + 1
      dl == olh_download_pdf(d, abs_path, pdf)
      all_reqs == page_req \o <<Req("pdf", url.host, t, 0)>>
      got == [slept EXCEPT !.downloaded = @ + 1, !.downloaded_dois = @ \cup {doi}]
  IN IF doi = NoDoi
       THEN CrawlOutcome("page", "no_doi", run, arts, d, NoDoi, page_req)
     ELSE IF doi \notin run.needed_dois
       THEN CrawlOutcome("page", "not_needed", slept, arts, d, doi, page_req)
     ELSE IF doi \in run.downloaded_dois
       THEN CrawlOutcome("page", "downloaded_before", slept, arts, d, doi, page_req)
     ELSE IF pdf_href = NullStr
       THEN CrawlOutcome("failed", "locate", slept, arts, d, doi, page_req)
     ELSE IF run.dry_run
       THEN CrawlOutcome("skipped", "dry_run", got, arts, d, doi, page_req)
     ELSE IF dl.success
       THEN CrawlOutcome("downloaded", "none", [got EXCEPT !.attempted = @ + 1],
                         update_article(arts, doi, "oa", pdf_href, attempts, dl.code, t, abs_path),
                         dl.disk, doi, all_reqs)
     ELSE CrawlOutcome("failed", "download", [slept EXCEPT !.attempted = @ + 1],
                       update_article(arts, doi, "oa", pdf_href, attempts, dl.code, t, NullPath),
                       dl.disk, doi, all_reqs)

\* One iteration of the "while stack" loop of crawl_journal, the loop test
\* included.  `page` answers the GET of the page, `pdf` the GET of the PDF.
crawl_iteration(run, arts, d, t, page, pdf) ==
  LET url == run.stack[Len(run.stack)]
      popped == [run EXCEPT !.stack = SubSeq(run.stack, 1, Len(run.stack) - 1)]
      visited == [popped EXCEPT !.visited_urls = @ \cup {url}]
      page_req == <<Req("page", url.host, t, 0)>>
      links == extract_internal_links(SiteLinks(url.path), cfg_domain)
      new_links == SelectSeq(links, LAMBDA l : l \notin visited.visited_urls)
  IN IF run.stack = <<>>
       THEN CrawlOutcome("done", "stack", IdleCrawl, arts, d, NoDoi, NoReqs)
     ELSE IF run.limit # 0 /\ run.downloaded >= run.limit
       THEN CrawlOutcome("done", "limit", IdleCrawl, arts, d, NoDoi, NoReqs)
     ELSE IF run.needed_dois \ run.downloaded_dois = {}
       THEN CrawlOutcome("done", "all", IdleCrawl, arts, d, NoDoi, NoReqs)
     ELSE IF url \in run.visited_urls
       THEN CrawlOutcome("page", "visited", popped, arts, d, NoDoi, NoReqs)
     ELSE IF page.err
       THEN CrawlOutcome("page", "error", visited, arts, d, NoDoi, page_req)
     ELSE IF page.status # HTTP_OK
       THEN CrawlOutcome("page", "status", visited, arts, d, NoDoi, page_req)
     ELSE IF StartsWithArticlePrefix(url)
       THEN crawl_article(visited, arts, d, t, url, page, pdf, page_req)
     ELSE CrawlOutcome("page", "links",
                       [visited EXCEPT !.stack = @ \o SortByPriorityDesc(new_links),
                                       !.wake = t + crawl_politeness],
                       arts, d, NoDoi, page_req)

CrawlStart ==
  /\ crawl.pc = "idle"
  /\ data_dir_exists' = TRUE      \* data_dir.mkdir(parents=True, exist_ok=True)
  /\ LET needed_dois == get_journal_dois(articles, cfg_db_journal)
     IN IF ~has_columns             \* no such column: file
          THEN /\ crawl' = IdleCrawl
               /\ ev' = Ev("crawl", "start", "crash", "none", NoDoi, NoReqs)
        ELSE IF needed_dois = {}
          THEN /\ crawl' = IdleCrawl
               /\ ev' = Ev("crawl", "start", "done", "none", NoDoi, NoReqs)
        ELSE /\ \E dry \in BOOLEAN, lim \in Limits :
                  crawl' = [IdleCrawl EXCEPT !.pc = "running", !.dry_run = dry, !.limit = lim,
                                             !.needed_dois = needed_dois,
                                             !.stack = <<cfg_start_url>>, !.wake = now]
             /\ ev' = Ev("crawl", "start", "none", "none", NoDoi, NoReqs)
  /\ UNCHANGED <<articles, has_columns, disk, now, oa, oa_hist, repo, repo_failures, sessions>>

\* the replies to distinguish in one iteration
OnArticlePage(run) ==
  run.stack # <<>> /\ StartsWithArticlePrefix(run.stack[Len(run.stack)])
PageRepliesFor(run) ==
  IF OnArticlePage(run) THEN PageReplies
  ELSE {r \in PageReplies : r.share /\ r.pdf_href # NullStr}
PdfRepliesFor(run, page) ==
  IF /\ OnArticlePage(run) /\ ~run.dry_run
     /\ ~page.err /\ page.status = HTTP_OK /\ page.share /\ page.pdf_href # NullStr
  THEN PdfReplies ELSE {AnyPdfReply}

CrawlStep ==
  /\ crawl.pc = "running"
  /\ now >= crawl.wake
  /\ \E page \in PageRepliesFor(crawl) : \E pdf \in PdfRepliesFor(crawl, page) :
       LET out == crawl_iteration(crawl, articles, disk, now, page, pdf)
       IN /\ \A d \in DOIs : out.articles[d].attempts <= AttemptsCap
          /\ crawl' = out.run
          /\ articles' = out.articles
          /\ disk' = out.disk
          /\ ev' = Ev("crawl", "step", out.result, out.check, out.doi, out.reqs)
  /\ UNCHANGED <<has_columns, data_dir_exists, now, oa, oa_hist, repo, repo_failures, sessions>>

Elapse(horizon) ==
  /\ now < horizon
  /\ now' = now + 1
  /\ UNCHANGED <<articles, has_columns, data_dir_exists, disk, oa, oa_hist,
                 repo, repo_failures, crawl, sessions, ev>>

\* ------------------------------------------------------------------------
\* Initial stores
\* ------------------------------------------------------------------------
\* A row the open-access adapter classified 'no-oa' at time 0.
NoOaRow(b) == [NewRow(b) EXCEPT !.availability = "no-oa", !.attempts = 1,
                                !.response = HTTP_OK, !.timestamp = 0]

InitRest ==
  /\ disk = EmptyDisk
  /\ now = 0
  /\ oa = IdleRun
  /\ oa_hist = [global |-> NullTime, pub |-> [p \in Publishers |-> NullTime]]
  /\ repo = IdleRun
  /\ repo_failures = NoFailures
  /\ crawl = IdleCrawl
  /\ sessions = [publisher |-> EmptyCache(Publishers), repo |-> EmptyCache(RepoSet)]
  /\ ev = NoEv

Tick == Elapse(MaxTime)
CrawlTick == Elapse(MaxCrawlTime)
RepoTick == Elapse(MaxRepoTime)
SharedTick == Elapse(MaxSharedTime)

\* a fresh store: the harvester's rows, with or without the acquisition columns
InitFresh(cats) ==
  /\ \E c \in cats : articles = [d \in DOIs |-> NewRow(c[d])]
  /\ has_columns \in BOOLEAN
  /\ data_dir_exists \in BOOLEAN
  /\ InitRest

InitOA == InitFresh(Catalogues)
Init == InitFresh({CatOne})

InitClassified(cats) ==
  /\ \E c \in cats :
       articles \in {[d \in DOIs |-> IF d \in S THEN NoOaRow(c[d]) ELSE NewRow(c[d])] :
                       S \in SUBSET DOIs}
  /\ has_columns \in BOOLEAN
  /\ data_dir_exists \in BOOLEAN
  /\ InitRest

InitCrawl == InitClassified(Catalogues)
InitRepo == InitClassified({CatOne})

NextOA ==
  \/ OAStart
  \/ OAStep
  \/ Tick

NextRepo ==
  \/ RepoStart
  \/ RepoStep
  \/ RepoTick

NextCrawl ==
  \/ CrawlStart
  \/ CrawlStep
  \/ CrawlTick

\* The three adapters on one store, one run at a time.
NoRun == oa.pc = "idle" /\ repo.pc = "idle" /\ crawl.pc = "idle"
RunOA == NoRun /\ OAStart
RunRepo == NoRun /\ RepoStart
RunCrawl == NoRun /\ CrawlStart

Next ==
  \/ RunOA
  \/ OAStep
  \/ RunRepo
  \/ RepoStep
  \/ RunCrawl
  \/ CrawlStep
  \/ Tick

Spec == Init /\ [][Next]_vars

\* A crawl and an open-access run working on the store at the same time.
NextShared ==
  \/ OAStart
  \/ OAStep
  \/ CrawlStart
  \/ CrawlStep
  \/ SharedTick

SpecShared == Init /\ [][NextShared]_vars

SpecCrawl == InitCrawl /\ [][NextCrawl]_vars
SpecOA == InitOA /\ [][NextOA]_vars
SpecRepo == InitRepo /\ [][NextRepo]_vars

\* ------------------------------------------------------------------------
\* Interrupt (KeyboardInterrupt) during a run of the open-access adapter
\* ------------------------------------------------------------------------
\* Where the exception is raised: at the loop boundary (during a sleep), while
\* the lookup is in flight, while the PDF request is in flight, inside the
\* "with open(dest_path, 'wb')" block, or after the download was verified and
\* before update_article committed.
InterruptPoints == {"sleep", "lookup", "download", "write", "commit"}

\* process_one cut short at `point`: main catches the exception, closes the
\* connection (an uncommitted update is rolled back) and exits.
pdfs_interrupted(arts, d, t, dry_run, doi, lookup_reply, pdf_reply, point) ==
  LET whole == pdfs_process_one(arts, d, t, dry_run, doi, lookup_reply, pdf_reply)
      result == query_unpaywall(TRUE, lookup_reply)
      lookup_req == <<Req("lookup", "unpaywall", t, 0)>>
      dl_reqs == (IF result.landing_url # NullStr THEN <<Req("landing", "publisher", t, 0)>>
                  ELSE <<>>) \o <<Req("pdf", "publisher", t, 0)>>
      abs_path == build_pdf_path(arts[doi].publisher, arts[doi].journal, arts[doi].year, doi)
      downloading == result.is_oa /\ result.pdf_url # NullStr
      writing == /\ downloading /\ ~pdf_reply.err /\ pdf_reply.status = HTTP_OK
                 /\ ~pdf_reply.html
  IN IF ~Attempted(whole) \/ point = "sleep"
       THEN Outcome("interrupted", "sleep", arts, d, NoReqs)
     ELSE IF point = "lookup" \/ ~downloading
       THEN Outcome("interrupted", "lookup", arts, d, lookup_req)
     ELSE IF point = "download" \/ ~writing
       THEN Outcome("interrupted", "download", arts, d, lookup_req \o dl_reqs)
     ELSE IF point = "write" \/ whole.result # "downloaded"
       THEN Outcome("interrupted", "write", arts, WriteFile(d, abs_path, Body(0, FALSE)),
                    lookup_req \o dl_reqs)
     ELSE Outcome("interrupted", "commit", arts, whole.disk, lookup_req \o dl_reqs)

OAInterrupt ==
  /\ oa.pc = "running"
  /\ LET cands == get_random_candidate(articles, cfg_years, cfg_journals)
     IN IF cands = {} \/ now < oa.wake
          THEN /\ ev' = Ev("oa", "step", "interrupted", "sleep", NoDoi, NoReqs)
               /\ UNCHANGED <<articles, disk>>
        ELSE \E doi \in cands :
             \E lr \in LookupRepliesFor(articles, disk, now, oa.dry_run, doi) :
             \E pr \in PdfRepliesAfter(lr), point \in InterruptPoints :
               LET out == pdfs_interrupted(articles, disk, now, oa.dry_run, doi, lr, pr, point)
               IN /\ articles' = out.articles
                  /\ disk' = out.disk
                  /\ ev' = Ev("oa", "step", out.result, out.check, doi, out.reqs)
  /\ oa' = IdleRun
  /\ sessions' = [sessions EXCEPT !.publisher = EmptyCache(Publishers)]
  /\ UNCHANGED <<has_columns, data_dir_exists, now, oa_hist, repo, repo_failures, crawl>>

NextInterrupt ==
  \/ OAStart
  \/ OAStep
  \/ OAInterrupt
  \/ Tick

SpecInterrupt == Init /\ [][NextInterrupt]_vars

\* ------------------------------------------------------------------------
\* Start-up checks of main (configuration errors)
\* ------------------------------------------------------------------------
\* What main finds at start-up: whether the config file exists, whether a
\* mailto is set (by --mailto or in the config), the configured repository
\* list, whether the database file exists.
RepoLists == {<<>>, cfg_repos}

\* start-up checks that let everything pass
pdfs_main_checks_lenient(config_exists, mailto, db_exists) == "ok"
\* scrape_pdfs.main up to sqlite3.connect: the first failing check, or "ok"
pdfs_main_checks(config_exists, mailto, db_exists) ==
  IF ~config_exists THEN "config"
  ELSE IF ~mailto THEN "mailto"
  ELSE IF ~db_exists THEN "database"
  ELSE "ok"

\* scrape_repo.main up to sqlite3.connect
repo_main_checks(config_exists, repos, db_exists) ==
  IF ~config_exists THEN "config"
  ELSE IF repos = <<>> THEN "repos"
  ELSE IF ~db_exists THEN "database"
  ELSE "ok"

\* main returns 1 after log.error
MainAborts(adapter, check) ==
  /\ NoRun
  /\ ev' = Ev(adapter, "start", "error", check, NoDoi, NoReqs)
  /\ UNCHANGED <<articles, has_columns, data_dir_exists, disk, now, oa, oa_hist,
                 repo, repo_failures, crawl, sessions>>

OAMain ==
  \E config_exists \in BOOLEAN, mailto \in BOOLEAN, db_exists \in BOOLEAN :
    LET check == pdfs_main_checks(config_exists, mailto, db_exists)
    IN IF check = "ok" THEN RunOA ELSE MainAborts("oa", check)

RepoMain ==
  \E config_exists \in BOOLEAN, repos \in RepoLists, db_exists \in BOOLEAN :
    LET check == repo_main_checks(config_exists, repos, db_exists)
    IN IF check = "ok" THEN RunRepo ELSE MainAborts("repo", check)

NextMain ==
  \/ OAMain
  \/ OAStep
  \/ RepoMain
  \/ RepoStep
  \/ Tick

SpecMain == Init /\ [][NextMain]_vars

\* ------------------------------------------------------------------------
\* Session acquisitions of one process, in any order
\* ------------------------------------------------------------------------
MaxAcquisitions == 3

\* what one acquisition returned, as logged in the history
Acq(key, a, t) ==
  [kind |-> "session", target |-> key, at |-> t, failures |-> 0,
   session |-> a.session, is_new |-> a.is_new, elapsed |-> a.elapsed]

\* a process of the open-access or of the repository adapter has started
InitSessions ==
  /\ \E c \in Catalogues : articles = [d \in DOIs |-> NewRow(c[d])]
  /\ has_columns = TRUE
  /\ data_dir_exists = TRUE
  /\ InitRest

SessionsStart ==
  /\ ev.op # "acquire"
  /\ \E adapter \in {"oa", "repo"} : ev' = Ev(adapter, "acquire", "none", "none", NoDoi, NoReqs)
  /\ sessions' = [publisher |-> EmptyCache(Publishers), repo |-> EmptyCache(RepoSet)]
  /\ UNCHANGED <<articles, has_columns, data_dir_exists, disk, now, oa, oa_hist,
                 repo, repo_failures, crawl>>

\* session, is_new, elapsed_str = get_publisher_session(publisher)
AcquirePublisherSession ==
  /\ ev.op = "acquire" /\ ev.adapter = "oa"
  /\ Len(ev.reqs) < MaxAcquisitions
  /\ \E publisher \in Publishers :
       LET a == get_publisher_session(sessions.publisher, publisher, now)
       IN /\ sessions' = [sessions EXCEPT !.publisher = a.cache]
          /\ ev' = [ev EXCEPT !.reqs = Append(@, Acq(publisher, a, now))]
  /\ UNCHANGED <<articles, has_columns, data_dir_exists, disk, now, oa, oa_hist,
                 repo, repo_failures, crawl>>

\* session, is_new_session, elapsed_str = get_repo_session(repo_url)
AcquireRepoSession ==
  /\ ev.op = "acquire" /\ ev.adapter = "repo"
  /\ Len(ev.reqs) < MaxAcquisitions
  /\ \E repo_url \in RepoSet :
       LET a == get_repo_session(sessions.repo, repo_url, now)
       IN /\ sessions' = [sessions EXCEPT !.repo = a.cache]
          /\ ev' = [ev EXCEPT !.reqs = Append(@, Acq(repo_url, a, now))]
  /\ UNCHANGED <<articles, has_columns, data_dir_exists, disk, now, oa, oa_hist,
                 repo, repo_failures, crawl>>

\* download_pdf_direct on a cached session: session.headers["Referer"] = ...
UseRepoSession ==
  /\ ev.op = "acquire" /\ ev.adapter = "repo"
  /\ \E repo_url \in Created(sessions.repo) :
       sessions' = [sessions EXCEPT !.repo = SetHeader(@, repo_url, "Referer")]
  /\ UNCHANGED <<articles, has_columns, data_dir_exists, disk, now, oa, oa_hist,
                 repo, repo_failures, crawl, ev>>

NextSessions ==
  \/ SessionsStart
  \/ AcquirePublisherSession
  \/ AcquireRepoSession
  \/ UseRepoSession
  \/ Tick

SpecSessions == InitSessions /\ [][NextSessions]_vars

\* ------------------------------------------------------------------------
\* The share-link <input> of an article page (extract_doi_from_page, regexes)
\* ------------------------------------------------------------------------
QuoteChars == {"\"", "'"}

\* <input id="share-link" value="..."> with the attributes in either order
\* and either kind of quote around the value; doi is the DOI the page is about.
InputTag(id_first, quote, doi) ==
  [id_first |-> id_first, quote |-> quote, doi |-> doi, value |-> ShareLink(doi)]

\* group 1 of both patterns, ["\']([^"\']+)["\']: the value up to its first
\* quote character of either kind, at least one character
ValueGroup(value) ==
  LET quotes == {i \in 1..Len(value) : value[i] \in QuoteChars}
      cut == IF quotes = {} THEN Len(value)
             ELSE (CHOOSE i \in quotes : \A j \in quotes : i <= j) - 1
  IN IF cut = 0 THEN NoShareLink ELSE SubSeq(value, 1, cut)

\* pattern.search, then pattern2.search when the first did not match
share_link_match(tag) ==
  LET match == IF tag.id_first THEN ValueGroup(tag.value) ELSE NoShareLink
      match2 == IF ~tag.id_first THEN ValueGroup(tag.value) ELSE NoShareLink
  IN IF match # NoShareLink THEN match ELSE match2

\* DOIs a page may carry: a registrant prefix and a suffix put together from
\* these pieces
DoiPieces == {<<>>, <<"g">>, <<".">>, <<"'">>, DoiOrg}
PageDois == {<<"1", "0", "/">> \o a \o b \o c : a \in DoiPieces, b \in DoiPieces, c \in DoiPieces}
InputTags ==
  {tag \in {InputTag(id_first, quote, doi) :
              id_first \in BOOLEAN, quote \in QuoteChars, doi \in PageDois} :
     \A i \in DOMAIN tag.doi : tag.doi[i] # tag.quote}

\* doi = extract_doi_from_page(html) on a page with this tag
ExtractDoi ==
  /\ \E tag \in InputTags :
       ev' = Ev("crawl", "extract", "none", "none",
                extract_doi_from_page(share_link_match(tag)), <<tag>>)
  /\ UNCHANGED <<articles, has_columns, data_dir_exists, disk, now, oa, oa_hist,
                 repo, repo_failures, crawl, sessions>>

InitExtract == InitFresh({CatOne})
NextExtract == ExtractDoi
SpecExtract == InitExtract /\ [][NextExtract]_vars

\* ------------------------------------------------------------------------
\* DOI harvester: the retrying GET (scrape_dois._request_with_retry)
\* ------------------------------------------------------------------------
MAX_RETRIES == 5
RETRY_BACKOFF == 2

DigitChars == <<"0", "1", "2", "3", "4", "5", "6", "7", "8", "9">>
IsDigit(c) == \E i \in DOMAIN DigitChars : DigitChars[i] = c
DigitValue(c) == (CHOOSE i \in DOMAIN DigitChars : DigitChars[i] = c) - 1

\* int(text) of a header value: the number, or ValueError
RECURSIVE DecimalValue(_, _)
DecimalValue(text, n) ==
  IF n = 0 THEN 0 ELSE 10 * DecimalValue(text, n - 1) + DigitValue(text[n])
int(text) ==
  IF text = <<>> \/ \E i \in DOMAIN text : ~IsDigit(text[i])
    THEN [ok |-> FALSE, value |-> 0]
  ELSE [ok |-> TRUE, value |-> DecimalValue(text, Len(text))]

\* A Retry-After header: its text and the number of seconds it asks for.
NoRetryAfter == [present |-> FALSE, text |-> <<>>, seconds |-> 0]
RetryAfter(text, seconds) == [present |-> TRUE, text |-> text, seconds |-> seconds]
RetryAfterSeconds == RetryAfter(<<"3", "0">>, 30)
\* an HTTP-date that lies seven seconds ahead
RetryAfterDate == RetryAfter(<<"W", "e", "d">>, 7)

\* What the server may answer to one GET.
GetReply(err, status, retry_after) ==
  [err |-> err, status |-> status, retry_after |-> retry_after]
GetReplies ==
  { GetReply(TRUE, 0, NoRetryAfter),
    GetReply(FALSE, HTTP_OK, NoRetryAfter),
    GetReply(FALSE, HTTP_RATE_LIMITED, NoRetryAfter),
    GetReply(FALSE, HTTP_RATE_LIMITED, RetryAfterSeconds),
    GetReply(FALSE, HTTP_RATE_LIMITED, RetryAfterDate) }
AnyGetReply == GetReply(TRUE, 0, NoRetryAfter)

NoWait == -1
\* One request of a call: the reply, the value of `delay` when it was sent
\* and the time slept after it (NoWait if the call ended with it).
Sent(reply, delay, wait) == [reply |-> reply, delay |-> delay, wait |-> wait]

\* the "for attempt in range(1, MAX_RETRIES + 1)" loop from `attempt` on
RECURSIVE retry_loop(_, _, _, _)
retry_loop(replies, attempt, delay, trace) ==
  IF attempt > MAX_RETRIES THEN [result |-> "none", trace |-> trace]
  ELSE
    LET r == replies[attempt]
        wait == IF r.retry_after.present THEN int(r.retry_after.text)
                ELSE [ok |-> TRUE, value |-> delay]
    IN IF r.err
         THEN IF attempt = MAX_RETRIES
                THEN [result |-> "raised", trace |-> Append(trace, Sent(r, delay, NoWait))]
              ELSE retry_loop(replies, attempt + 1, delay * 2,
                              Append(trace, Sent(r, delay, delay)))
       ELSE IF r.status = HTTP_RATE_LIMITED
         THEN IF ~wait.ok
                THEN [result |-> "value_error", trace |-> Append(trace, Sent(r, delay, NoWait))]
              ELSE retry_loop(replies, attempt + 1, delay * 2,
                              Append(trace, Sent(r, delay, wait.value)))
       ELSE [result |-> "response", trace |-> Append(trace, Sent(r, delay, NoWait))]

_request_with_retry(replies) == retry_loop(replies, 1, RETRY_BACKOFF, <<>>)

\* the replies to distinguish in one call: those the call gets to see
GetRepliesFor ==
  {f \in [1..MAX_RETRIES -> GetReplies] :
     \A i \in 1..MAX_RETRIES :
       i > Len(_request_with_retry(f).trace) => f[i] = AnyGetReply}

RequestWithRetry ==
  /\ \E replies \in GetRepliesFor :
       LET out == _request_with_retry(replies)
       IN ev' = Ev("dois", "retry", out.result, "none", NoDoi, out.trace)
  /\ UNCHANGED <<articles, has_columns, data_dir_exists, disk, now, oa, oa_hist,
                 repo, repo_failures, crawl, sessions>>

InitRetry == InitFresh({CatOne})
NextRetry == RequestWithRetry
SpecRetry == InitRetry /\ [][NextRetry]_vars

\* ------------------------------------------------------------------------
\* Runs that keep running: a loop of main that can go on to its next
\* iteration does so, and time passes up to the horizon.
\* ------------------------------------------------------------------------
SpecLive ==
  /\ Init /\ [][Next]_vars
  /\ WF_vars(OAStep) /\ WF_vars(RepoStep) /\ WF_vars(CrawlStep) /\ WF_vars(Tick)

\* ------------------------------------------------------------------------
\* Two processes on one store whose attempts on the same article overlap
\* ------------------------------------------------------------------------
\* An iteration of the open-access adapter and one of the crawl that both
\* read the article's row before either writes it.  Each computes its record
\* from the row as it was; update_article replaces the row, so the row is the
\* one of whichever process writes last, and the file on disk is the one the
\* later download left.
OverlappedAttempts ==
  /\ oa.pc = "running" /\ now >= oa.wake
  /\ crawl.pc = "running" /\ now >= crawl.wake
  /\ \E doi \in get_random_candidate(articles, cfg_years, cfg_journals) :
     \E lr \in LookupRepliesFor(articles, disk, now, oa.dry_run, doi) :
     \E pr \in PdfRepliesAfter(lr) :
     \E page \in PageRepliesFor(crawl) : \E pdf \in PdfRepliesFor(crawl, page) :
     \E last \in {"oa", "crawl"} :
       LET a == pdfs_process_one(articles, disk, now, oa.dry_run, doi, lr, pr)
           b == crawl_iteration(crawl, articles, disk, now, page, pdf)
           pub == articles[doi].publisher
           run == pdfs_main_loop(oa, a.result, now)
       IN /\ Attempted(a)
          /\ b.doi = doi /\ b.articles # articles
          /\ articles' = [articles EXCEPT ![doi] = IF last = "oa" THEN a.articles[doi]
                                                   ELSE b.articles[doi]]
          /\ disk' = IF last = "oa"
                       THEN pdfs_process_one(articles, b.disk, now, oa.dry_run, doi, lr, pr).disk
                     ELSE crawl_iteration(crawl, articles, a.disk, now, page, pdf).disk
          /\ oa' = run
          /\ crawl' = b.run
          /\ sessions' = [sessions EXCEPT !.publisher =
                            IF run.pc = "idle" THEN EmptyCache(Publishers)
                            ELSE pdfs_sessions_after(@, pub, a.reqs, now)]
          /\ oa_hist' = [global |-> now, pub |-> [oa_hist.pub EXCEPT ![pub] = now]]
          /\ ev' = Ev("oa+crawl", "overlap", a.result, b.result, doi, a.reqs \o b.reqs)
  /\ UNCHANGED <<has_columns, data_dir_exists, now, repo, repo_failures>>

NextOverlap ==
  \/ OAStart
  \/ OAStep
  \/ CrawlStart
  \/ CrawlStep
  \/ OverlappedAttempts
  \/ SharedTick

SpecOverlap == Init /\ [][NextOverlap]_vars

\* ------------------------------------------------------------------------
\* Properties
\* ------------------------------------------------------------------------
\* the last step sent a request of this kind
Requested(kind) == \E i \in DOMAIN ev.reqs : ev.reqs[i].kind = kind
\* the last step was an attempt of `adapter` that ended with `result`
StepOf(adapter, result) == ev.adapter = adapter /\ ev.op = "step" /\ ev.result = result
\* the file stored at the path a row names, if any, carries the PDF signature
StoredPdf(d) == /\ articles[d].file \in Paths
                /\ disk[articles[d].file] # NoFile
                /\ disk[articles[d].file].magic

\* C1: in every reachable state, a non-null file field names a stored file
\* that begins with the PDF signature.
C1_FileFieldNamesStoredPdf ==
  \A d \in DOIs : articles[d].file # NullPath => StoredPdf(d)

\* C2: after an attempt whose download failed, whatever the reason, the
\* article's file field is null and no file is left at the destination path.
C2_FailedDownloadLeavesNothing ==
  (ev.op = "step" /\ ev.result = "failed" /\ Requested("pdf"))
    => /\ articles[ev.doi].file = NullPath
       /\ disk[PathOf(ev.doi)] = NoFile

\* the kinds of request an adapter sends for one article
ArticleRequests == {"lookup", "landing", "pdf"}
\* the step recorded in e was a non-skipped attempt: it passed the gates
\* and sent a request for its article
NonSkipped(e) ==
  e.op = "step" /\ \E i \in DOMAIN e.reqs : e.reqs[i].kind \in ArticleRequests
AdapterStep == OAStep \/ RepoStep \/ CrawlStep

C4_AttemptsSpaced ==
  [][LET pub == articles[ev'.doi].publisher
         too_soon == \/ oa_hist.global # NullTime /\ now - oa_hist.global < politeness_interval
                     \/ oa_hist.pub[pub] # NullTime /\ now - oa_hist.pub[pub] < publisher_interval
     IN (NonSkipped(ev') /\ too_soon) => ~OAStep]_vars

\* a second article of a publisher attempted publisher_interval after the first
C4_SamePublisherTwice ==
  /\ ev.adapter = "oa" /\ NonSkipped(ev)
  /\ \E d \in DOIs \ {ev.doi} :
       /\ articles[d].publisher = articles[ev.doi].publisher
       /\ articles[d].timestamp # NullTime
       /\ articles[ev.doi].timestamp = articles[d].timestamp + publisher_interval

\* C5: no request of the repository adapter targets a repository whose
\* failure counter had reached max_repo_failures when the request was sent.
C5_NoRequestToDisabledRepo ==
  ev.adapter = "repo"
    => \A i \in DOMAIN ev.reqs : ev.reqs[i].failures < max_repo_failures

\* an attempt made after the first repository was disabled went to the
\* second one only
C5_DisabledRepoPassedOver ==
  /\ ev.adapter = "repo" /\ NonSkipped(ev)
  /\ repo_failures[cfg_repos[1]] >= max_repo_failures
  /\ \A i \in DOMAIN ev.reqs : ev.reqs[i].target = cfg_repos[2]

\* a run started in dry-run mode, or a step of such a run
DryRunStart ==
  \/ OAStart /\ oa'.dry_run
  \/ RepoStart /\ repo'.dry_run
  \/ CrawlStart /\ crawl'.dry_run
DryRunStep ==
  \/ oa.dry_run /\ OAStep
  \/ repo.dry_run /\ RepoStep
  \/ crawl.dry_run /\ CrawlStep

\* C6: a dry run of any adapter, from its start to its end, leaves the
\* article records and the table's columns unchanged and creates or writes
\* nothing on disk.
C6_DryRunChangesNothing ==
  [][(DryRunStart \/ DryRunStep)
       => UNCHANGED <<articles, has_columns, data_dir_exists, disk>>]_vars

\* C7 as stated: no step of a dry run sends any network request.
C7_DryRunSendsNothing ==
  [][DryRunStep => ev'.reqs = NoReqs]_vars

\* C7: in a dry run the open-access adapter sends no lookup and no download
\* request, the repository adapter fetches no landing page and no PDF, and
\* the crawl adapter requests no PDF: a step that sends anything but page
\* fetches of the crawl is not a step of a dry run.
C7_DryRunOnlyCrawlsPages ==
  [][(\/ \E i \in DOMAIN ev'.reqs : ev'.reqs[i].kind # "page"
      \/ ev'.reqs # NoReqs /\ ev'.adapter # "crawl")
       => ~DryRunStep]_vars

\* a dry crawl found a needed article with a PDF link, having fetched its page
C7_DryCrawlFetchedPage ==
  /\ StepOf("crawl", "skipped") /\ ev.check = "dry_run"
  /\ Requested("page")
  /\ ev.doi \in crawl.downloaded_dois

\* C8: a row that is 'no-oa' with a null file is never given another
\* availability while its file stays null.
C8_NoOaIsTerminal ==
  [][\A d \in DOIs :
       (articles[d].availability = "no-oa" /\ articles[d].file = NullPath)
         => ~(articles'[d].availability # "no-oa" /\ articles'[d].file = NullPath)]_vars

\* C9: once attempts has reached max_attempts, no adapter sends a request
\* for the article or changes its row.
C9_ExhaustedIsLeftAlone ==
  [][\A d \in DOIs :
       articles[d].attempts >= max_attempts
         => /\ articles'[d] = articles[d]
            /\ ~(AdapterStep /\ NonSkipped(ev') /\ ev'.doi = d)]_vars

\* C10: once file is set, no adapter sends a request for the article,
\* changes its row, or touches the stored file.
C10_AcquiredIsLeftAlone ==
  [][\A d \in DOIs :
       articles[d].file # NullPath
         => /\ articles'[d] = articles[d]
            /\ disk'[articles[d].file] = disk[articles[d].file]
            /\ ~(AdapterStep /\ NonSkipped(ev') /\ ev'.doi = d)]_vars

\* the results of an attempt that did not end with a verified file
UnverifiedResults == {"failed", "no-oa", "no_download_link"}

\* C11: every attempt of an adapter that selected an article and did not end
\* with a verified file leaves a failure record on it: attempts raised by
\* one, timestamp set to the time of the attempt, file null.
C11_FailureIsRecorded ==
  [][\A d \in DOIs :
       (/\ ev'.op = "step" /\ ev'.doi = d /\ ev'.result \in UnverifiedResults
        /\ ~(/\ articles'[d].attempts = articles[d].attempts + 1
             /\ articles'[d].timestamp = now
             /\ articles'[d].file = NullPath))
         => ~AdapterStep]_vars

\* C12: an interrupted run leaves no file on disk that its record does not
\* name and no request sent for an article without the record of the attempt
\* (attempts raised by one).
C12_InterruptIsClean ==
  [][(/\ ev'.result = "interrupted"
      /\ \/ \E p \in Paths : disk'[p] # disk[p] /\ \A d \in DOIs : articles'[d].file # p
         \/ /\ ev'.reqs # NoReqs
            /\ articles'[ev'.doi].attempts # articles[ev'.doi].attempts + 1)
       => ~OAInterrupt]_vars

\* C13: a step that changes an article changes that one article only, leaves
\* its bibliographic fields alone and writes the acquisition fields of the
\* attempt together: attempts raised by one and timestamp the time of the
\* attempt, a file only with its source, response 200 and an availability of
\* 'oa' or 'repo', and 'no-oa' only with no source and no file.
C13_UpdateIsWhole ==
  [][\A d \in DOIs :
       articles'[d] # articles[d]
         => /\ ev'.doi = d
            /\ \A f \in {"publisher", "journal", "year"} : articles'[d][f] = articles[d][f]
            /\ articles'[d].attempts = articles[d].attempts + 1
            /\ articles'[d].timestamp = now
            /\ articles'[d].response # NullTime
            /\ articles'[d].availability \in {"oa", "no-oa", "repo"}
            /\ articles'[d].file # NullPath
                 => /\ articles'[d].source # NullStr
                    /\ articles'[d].response = HTTP_OK
                    /\ articles'[d].availability \in {"oa", "repo"}
            /\ articles'[d].availability = "no-oa"
                 => articles'[d].source = NullStr /\ articles'[d].file = NullPath]_vars

\* a second attempt on an article stored a file: all six fields hold the
\* values of that attempt
C13_SecondAttemptStored ==
  /\ ev.op = "step" /\ ev.result = "downloaded"
  /\ articles[ev.doi].attempts = 2
  /\ articles[ev.doi].timestamp > 0
  /\ articles[ev.doi].file # NullPath
  /\ articles[ev.doi].response = HTTP_OK

\* the lookup answered, by error, by status or in its body, that the article
\* is not open access
NotOpenAccess(lr) == lr.err \/ lr.status # HTTP_OK \/ ~lr.is_oa

\* the record the claim describes after such a lookup on `doi`
NoOaRecord(doi, lr) ==
  [articles EXCEPT ![doi] =
     [@ EXCEPT !.availability = "no-oa", !.source = NullStr, !.file = NullPath,
               !.attempts = @ + 1,
               !.response = IF lr.err THEN NO_RESPONSE ELSE lr.status,
               !.timestamp = now]]

\* C14: a non-skipped open-access attempt whose lookup says the article is not
\* open access ends 'no-oa' with the record availability 'no-oa', source null,
\* file null, attempts + 1, response the lookup's status code (0 when the
\* lookup raised), and sends nothing but the lookup request.
C14_NoOaRecorded ==
  [][/\ \A doi \in get_random_candidate(articles, cfg_years, cfg_journals) :
        \A lr \in LookupReplies :
          LET out == pdfs_process_one(articles, disk, now, FALSE, doi, lr, AnyPdfReply)
          IN (Attempted(out) /\ NotOpenAccess(lr))
               => /\ out.result = "no-oa"
                  /\ out.articles = NoOaRecord(doi, lr)
                  /\ out.disk = disk
                  /\ out.reqs = <<Req("lookup", "unpaywall", now, 0)>>
     /\ (/\ ev'.adapter = "oa" /\ ev'.op = "step" /\ ev'.result = "no-oa"
         /\ ~(/\ \E lr \in LookupReplies :
                   NotOpenAccess(lr) /\ articles' = NoOaRecord(ev'.doi, lr)
              /\ disk' = disk
              /\ \A i \in DOMAIN ev'.reqs : ev'.reqs[i].kind = "lookup"))
          => ~OAStep]_vars

\* the lookup of a first attempt was rate limited and the article is
\* recorded 'no-oa' with that code
C14_RateLimitedRecordedNoOa ==
  /\ StepOf("oa", "no-oa")
  /\ articles[ev.doi].attempts = 1
  /\ articles[ev.doi].response = HTTP_RATE_LIMITED
  /\ articles[ev.doi].availability = "no-oa"
  /\ \A p \in Paths : disk[p] = NoFile

\* landing pages that come with status 200 and hold no download container
\* with a link
LinklessPages == { LandingReply(FALSE, HTTP_OK, Html(FALSE, NullStr)),
                   LandingReply(FALSE, HTTP_OK, Html(TRUE, NullStr)) }

\* C15: when a repository answers 200 with a page that holds no download
\* link, the repository attempt ends 'no_download_link' with that landing
\* request as its last request, the record becomes availability 'no-oa', file
\* null, attempts + 1, and the failure counter of that repository stays as it
\* was.
C15_NoLinkEndsAttempt ==
  [][/\ \A doi \in get_random_nonoa_candidate(articles, cfg_years, cfg_journals) :
        \A page \in LinklessPages :
          LET active_repos == get_active_repos(repo_failures, cfg_repos, max_repo_failures)
              replies == [r \in RepoSet |-> RepoReply(page, AnyPdfReply)]
              out == repo_process_one(articles, disk, repo_failures, now, FALSE, doi, replies)
          IN active_repos # <<>>
               => /\ out.result = "no_download_link"
                  /\ out.reqs = <<Req("landing", active_repos[1], now,
                                      repo_failures[active_repos[1]])>>
                  /\ out.failures = repo_failures
                  /\ out.articles[doi].availability = "no-oa"
                  /\ out.articles[doi].file = NullPath
                  /\ out.articles[doi].attempts = articles[doi].attempts + 1
     /\ (/\ ev'.adapter = "repo" /\ ev'.op = "step" /\ ev'.result = "no_download_link"
         /\ ~(/\ ev'.reqs # NoReqs
              /\ LET last == ev'.reqs[Len(ev'.reqs)]
                 IN /\ last.kind = "landing"
                    /\ repo_failures'[last.target] = repo_failures[last.target]
                    /\ \A i \in 1..(Len(ev'.reqs) - 1) : ev'.reqs[i].target # last.target
              /\ articles'[ev'.doi].availability = "no-oa"
              /\ articles'[ev'.doi].file = NullPath
              /\ articles'[ev'.doi].response = HTTP_OK
              /\ articles'[ev'.doi].attempts = articles[ev'.doi].attempts + 1))
          => ~RepoStep]_vars

\* the first repository failed and was counted, the second answered with a
\* page without a link and was not
C15_SecondRepoHadNoLink ==
  /\ StepOf("repo", "no_download_link")
  /\ Len(ev.reqs) = 2
  /\ repo_failures[ev.reqs[1].target] = ev.reqs[1].failures + 1
  /\ repo_failures[ev.reqs[2].target] = ev.reqs[2].failures
  /\ articles[ev.doi].availability = "no-oa"

\* a PDF response with status 200, a content type that contains 'html' and a
\* body that would pass the size and signature checks
HtmlPdf == PdfReply(FALSE, HTTP_OK, TRUE, FALSE, Body(MinPdfSize, TRUE))

\* nothing was written and the article is recorded with 403 and no file
RejectedAsForbidden(arts, d, doi) ==
  /\ d = disk
  /\ arts[doi].response = HTTP_FORBIDDEN
  /\ arts[doi].file = NullPath

C16_OpenAccessPart ==
  \A doi \in get_random_candidate(articles, cfg_years, cfg_journals) :
    \A lr \in LookupReplies :
      LET out == pdfs_process_one(articles, disk, now, FALSE, doi, lr, HtmlPdf)
      IN out.check = "download"
           => out.result = "failed" /\ RejectedAsForbidden(out.articles, out.disk, doi)

C16_CrawlPart ==
  (crawl.pc = "running" /\ ~crawl.dry_run)
    => LET out == crawl_iteration(crawl, articles, disk, now,
                                  PageReply(FALSE, HTTP_OK, TRUE, "/pdf"), HtmlPdf)
       IN out.check = "download"
            => out.result = "failed" /\ RejectedAsForbidden(out.articles, out.disk, out.doi)

C16_RepositoryPart ==
  \A doi \in get_random_nonoa_candidate(articles, cfg_years, cfg_journals) :
    LET replies == [r \in RepoSet |->
                      RepoReply(LandingReply(FALSE, HTTP_OK, Html(TRUE, "/dl")), HtmlPdf)]
        out == repo_process_one(articles, disk, repo_failures, now, FALSE, doi, replies)
    IN get_active_repos(repo_failures, cfg_repos, max_repo_failures) # <<>>
         => out.result = "failed" /\ RejectedAsForbidden(out.articles, out.disk, doi)

\* C16: in each of the three adapters an attempt whose PDF request is answered
\* 200 with an html content type writes nothing to disk and records the
\* article with response 403 and file null.
C16_HtmlRecordedAsForbidden ==
  C16_OpenAccessPart /\ C16_CrawlPart /\ C16_RepositoryPart

\* the eligible sets as the claim words them
InScope(d) ==
  /\ articles[d].year \in cfg_years[1]..cfg_years[2]
  /\ articles[d].journal \in cfg_journals
  /\ articles[d].file = NullPath
EligibleOpenAccess == {d \in DOIs : InScope(d) /\ articles[d].availability # "no-oa"}
EligibleRepository == {d \in DOIs : InScope(d) /\ articles[d].availability = "no-oa"}

\* C17: each selector offers exactly its eligible set, the two sets are
\* disjoint, and a step of the open-access or the repository adapter that
\* reached its selector ends 'none' exactly when that set is empty and
\* otherwise works on an article of the set.
C17_SelectorsPickEligible ==
  [][/\ get_random_candidate(articles, cfg_years, cfg_journals) = EligibleOpenAccess
     /\ get_random_nonoa_candidate(articles, cfg_years, cfg_journals) = EligibleRepository
     /\ get_random_candidate(articles, cfg_years, cfg_journals)
          \cap get_random_nonoa_candidate(articles, cfg_years, cfg_journals) = {}
     /\ (/\ ev'.adapter = "oa" /\ ev'.op = "step"
         /\ \/ (ev'.result = "none") # (EligibleOpenAccess = {})
            \/ ev'.result # "none" /\ ev'.doi \notin EligibleOpenAccess)
          => ~OAStep
     /\ (/\ ev'.adapter = "repo" /\ ev'.op = "step"
         /\ ev'.result \notin {"all_disabled", "crash"}
         /\ \/ (ev'.result = "none") # (EligibleRepository = {})
            \/ ev'.result # "none" /\ ev'.doi \notin EligibleRepository)
          => ~RepoStep]_vars

\* the repository selector returned 'none' while an article with no file is
\* in the table: it is outside the year range and not classified 'no-oa'
C17_NoneWithFilelessArticle ==
  /\ StepOf("repo", "none")
  /\ \E d \in DOIs : articles[d].file = NullPath /\ d \notin EligibleRepository
  /\ EligibleOpenAccess = {}

\* an attempt on doi now would come too soon after a recorded attempt on any
\* article, or after one on an article of the same publisher
Disallowed(doi) ==
  \/ \E d \in DOIs : /\ articles[d].timestamp # NullTime
                     /\ now - articles[d].timestamp < politeness_interval
  \/ \E d \in DOIs : /\ articles[d].publisher = articles[doi].publisher
                     /\ articles[d].timestamp # NullTime
                     /\ now - articles[d].timestamp < publisher_interval

\* C18: an open-access attempt that reaches the politeness check and is
\* disallowed ends 'skipped', sends no request and leaves every record and
\* the disk as they were.
C18_DisallowedIsSkipped ==
  [][(/\ ev'.adapter = "oa" /\ ev'.op = "step" /\ ev'.doi # NoDoi
      /\ articles[ev'.doi].attempts < max_attempts
      /\ Disallowed(ev'.doi)
      /\ ~(/\ ev'.result = "skipped" /\ ev'.check = "politeness"
           /\ ev'.reqs = NoReqs
           /\ articles' = articles
           /\ disk' = disk))
       => ~OAStep]_vars

\* an article attempted once is selected again at the same time and skipped
C18_SkippedRightAfterAttempt ==
  /\ StepOf("oa", "skipped") /\ ev.check = "politeness"
  /\ articles[ev.doi].attempts = 1
  /\ articles[ev.doi].timestamp = now

TooCloseWithin(e) ==
  \E i, j \in DOMAIN e.reqs : i < j /\ e.reqs[j].at - e.reqs[i].at < crawl_politeness
\* the first request of iteration e2 comes closer than the politeness delay
\* after the last request of the iteration before it, e1
TooCloseAcross(e1, e2) ==
  /\ e1.adapter = "crawl" /\ e1.op = "step" /\ e1.reqs # NoReqs
  /\ e2.reqs[1].at - e1.reqs[Len(e1.reqs)].at < crawl_politeness

\* C20: in a crawl run any two consecutive requests to the journal's domain,
\* within one iteration or from one iteration to the next, are at least
\* crawl_politeness apart.
C20_CrawlRequestsSpaced ==
  [][(/\ ev'.adapter = "crawl" /\ ev'.op = "step" /\ ev'.reqs # NoReqs
      /\ crawl.pc = "running"
      /\ (TooCloseWithin(ev') \/ TooCloseAcross(ev, ev')))
       => ~CrawlStep]_vars

\* two requests of one repository attempt go to the same repository closer
\* than politeness_min
RepoTooCloseWithin(e) ==
  \E i, j \in DOMAIN e.reqs :
    /\ i < j /\ e.reqs[i].target = e.reqs[j].target
    /\ e.reqs[j].at - e.reqs[i].at < politeness_min
\* a request of attempt e2 goes to a repository closer than politeness_min
\* after a request of the attempt before it, e1, to the same repository
RepoTooCloseAcross(e1, e2) ==
  /\ e1.adapter = "repo" /\ e1.op = "step"
  /\ \E i \in DOMAIN e1.reqs, j \in DOMAIN e2.reqs :
       /\ e1.reqs[i].target = e2.reqs[j].target
       /\ e2.reqs[j].at - e1.reqs[i].at < politeness_min

\* C21: any two requests of the repository adapter to the same repository,
\* within one attempt or from one attempt to the next, are at least
\* politeness_min apart.
C21_RepoRequestsSpaced ==
  [][(/\ ev'.adapter = "repo" /\ ev'.op = "step" /\ ev'.reqs # NoReqs
      /\ (RepoTooCloseWithin(ev') \/ RepoTooCloseAcross(ev, ev')))
       => ~RepoStep]_vars

\* C22: a missing database, a missing mailto or an empty repository list
\* fails the start-up checks, and a start that fails them starts no run,
\* sends no request and leaves the store, the data directory and the disk as
\* they were.
C22_ConfigErrorAborts ==
  [][/\ \A c \in BOOLEAN, m \in BOOLEAN, db \in BOOLEAN :
          (~m \/ ~db) => pdfs_main_checks(c, m, db) # "ok"
     /\ \A c \in BOOLEAN, repos \in RepoLists, db \in BOOLEAN :
          (repos = <<>> \/ ~db) => repo_main_checks(c, repos, db) # "ok"
     /\ (ev'.op = "start" /\ ev'.result = "error" /\ ev' # ev)
          => /\ ev'.check \in {"config", "mailto", "database", "repos"}
             /\ ev'.reqs = NoReqs /\ ev'.doi = NoDoi
             /\ oa'.pc = "idle" /\ repo'.pc = "idle"
             /\ articles' = articles /\ disk' = disk
             /\ has_columns' = has_columns /\ data_dir_exists' = data_dir_exists
             /\ repo_failures' = repo_failures]_vars

\* a start of the repository adapter failed on the empty repository list
\* while an article was waiting for it
C22_AbortedOnEmptyRepoList ==
  /\ ev.adapter = "repo" /\ ev.op = "start" /\ ev.result = "error" /\ ev.check = "repos"
  /\ EligibleRepository # {}
  /\ repo.pc = "idle"

\* C23: an open-access attempt that sent only the lookup and got a 429 or no
\* response at all does not mark the article 'no-oa': the article stays in
\* the eligible set of the open-access adapter.
C23_LookupTroubleIsNotNoOa ==
  [][(/\ ev'.adapter = "oa" /\ ev'.op = "step" /\ ev'.doi # NoDoi
      /\ ev'.reqs = <<Req("lookup", "unpaywall", now, 0)>>
      /\ articles'[ev'.doi].response \in {HTTP_RATE_LIMITED, NO_RESPONSE}
      /\ \/ articles'[ev'.doi].availability = "no-oa"
         \/ ev'.doi \notin get_random_candidate(articles', cfg_years, cfg_journals))
       => ~OAStep]_vars

\* C24: the step of the repository adapter that follows one that recorded
\* 'no download link' for an article does not send a request for that article.
C24_NoLinkIsTerminal ==
  [][(/\ StepOf("repo", "no_download_link")
      /\ ev'.adapter = "repo" /\ ev'.op = "step"
      /\ ev'.doi = ev.doi /\ NonSkipped(ev'))
       => ~RepoStep]_vars

\* the cache of the process whose acquisitions are logged
RunningCache == IF ev.adapter = "oa" THEN sessions.publisher ELSE sessions.repo

\* C25: in the acquisitions of a run, is_new is true exactly on the first
\* acquisition of a key, two acquisitions return the same session exactly
\* when they have the same key, and what an acquisition returns and caches
\* does not depend on the time the session was last used.
C25_OneSessionPerKey ==
  ev.op = "acquire"
    => /\ \A j \in DOMAIN ev.reqs :
            ev.reqs[j].is_new = (\A i \in 1..(j - 1) : ev.reqs[i].target # ev.reqs[j].target)
       /\ \A i, j \in DOMAIN ev.reqs :
            (ev.reqs[i].target = ev.reqs[j].target) = (ev.reqs[i].session = ev.reqs[j].session)
       /\ \A k \in Created(RunningCache), t \in 0..MaxTime :
            LET a == GetOrCreate(RunningCache, k, now, CURL_HEADERS)
                b == GetOrCreate([RunningCache EXCEPT ![k].last_used = t], k, now, CURL_HEADERS)
            IN a.session = b.session /\ a.is_new = b.is_new /\ a.cache = b.cache

\* a key was acquired, then another one, then the first one again after some
\* time: the third acquisition is not new and returns the first session
C25_FirstKeyAcquiredAgain ==
  /\ ev.op = "acquire" /\ Len(ev.reqs) = 3
  /\ ev.reqs[1].target # ev.reqs[2].target
  /\ ev.reqs[3].target = ev.reqs[1].target
  /\ ev.reqs[3].session = ev.reqs[1].session
  /\ ~ev.reqs[3].is_new /\ ev.reqs[3].elapsed > 0

\* C26: the DOI extracted from a share-link field that holds
\* https://doi.org/<doi> is <doi>, whichever order the id and value
\* attributes come in.
C26_ExtractsExactDoi ==
  ev.op = "extract" => ev.doi = ev.reqs[1].doi

\* ------------------------------------------------------------------------
\* C27: check_politeness allows an attempt exactly when the global interval
\* has passed since the latest timestamp of any article (or there is none)
\* and the publisher interval has passed since the publisher's latest
\* timestamp (or there is none); when it does not allow, wait_seconds is
\* positive and is the remaining time of the first violated interval, the
\* global one first.  Checked for every publisher and every pair of
\* intervals at every reachable table and time.
\* ------------------------------------------------------------------------
IntervalChoices == 0 .. 3

Remaining(stamps, interval) ==
  interval - (now - CHOOSE ts \in stamps : \A u \in stamps : u <= ts)

C27_PolitenessDecision ==
  \A p \in Publishers, gi \in IntervalChoices, pi \in IntervalChoices :
    LET r == check_politeness(articles, p, now, gi, pi)
        all == {articles[d].timestamp : d \in DOIs} \ {NullTime}
        own == {articles[d].timestamp :
                  d \in {x \in DOIs : articles[x].publisher = p}} \ {NullTime}
        global_ok == \A ts \in all : now - ts >= gi
        pub_ok == \A ts \in own : now - ts >= pi
    IN /\ r.ok <=> (global_ok /\ pub_ok)
       /\ ~r.ok => /\ r.wait > 0
                   /\ r.wait = IF ~global_ok THEN Remaining(all, gi)
                               ELSE Remaining(own, pi)

\* an attempt was held back by the publisher interval alone: the global
\* interval had passed since every recorded timestamp
C27_HeldByPublisherIntervalOnly ==
  /\ StepOf("oa", "skipped") /\ ev.check = "politeness"
  /\ \A d \in DOIs : articles[d].timestamp # NullTime =>
                        now - articles[d].timestamp >= politeness_interval

\* ------------------------------------------------------------------------
\* C28: in every failure record an adapter writes, response is 0 only if no
\* request of the attempt received an HTTP response; if a request received
\* one, the recorded response is a status code of that attempt or the
\* synthetic 403.
\* ------------------------------------------------------------------------
\* the status codes that the servers sent back during a repository attempt
RepoStatusesReceived(reqs, replies) ==
  {replies[reqs[i].target].landing.status :
     i \in {j \in DOMAIN reqs : reqs[j].kind = "landing" /\ ~replies[reqs[j].target].landing.err}}
  \cup
  {replies[reqs[i].target].pdf.status :
     i \in {j \in DOMAIN reqs : reqs[j].kind = "pdf" /\ ~replies[reqs[j].target].pdf.err}}

\* the status codes that the servers sent back during an open-access attempt
OAStatusesReceived(reqs, lookup_reply, pdf_reply) ==
  {lookup_reply.status :
     i \in {j \in DOMAIN reqs : reqs[j].kind = "lookup" /\ ~lookup_reply.err}}
  \cup
  {pdf_reply.status :
     i \in {j \in DOMAIN reqs : reqs[j].kind = "pdf" /\ ~pdf_reply.err}}

BestAvailable(response, received) ==
  IF received = {} THEN response = NO_RESPONSE
  ELSE response \in received \cup {HTTP_FORBIDDEN}

C28_RepositoryPart ==
  LET active_repos == get_active_repos(repo_failures, cfg_repos, max_repo_failures)
  IN \A doi \in get_random_nonoa_candidate(articles, cfg_years, cfg_journals) :
       \A replies \in RepoRepliesFor(FALSE, active_repos) :
         LET out == repo_process_one(articles, disk, repo_failures, now, FALSE, doi, replies)
         IN (active_repos # <<>> /\ out.result \in {"failed", "no_download_link"})
              => BestAvailable(out.articles[doi].response,
                               RepoStatusesReceived(out.reqs, replies))

C28_OpenAccessPart ==
  \A doi \in get_random_candidate(articles, cfg_years, cfg_journals) :
    \A lr \in LookupReplies : \A pr \in PdfRepliesAfter(lr) :
      LET out == pdfs_process_one(articles, disk, now, FALSE, doi, lr, pr)
      IN out.result = "failed"
           => BestAvailable(out.articles[doi].response,
                            OAStatusesReceived(out.reqs, lr, pr))

C28_BestAvailableStatusRecorded ==
  C28_RepositoryPart /\ C28_OpenAccessPart

\* ------------------------------------------------------------------------
\* C29: a call of the retrying GET sends at most MAX_RETRIES requests; after
\* the k-th consecutive 429 response it waits the Retry-After value when
\* the header is present and RETRY_BACKOFF * 2^(k-1) seconds otherwise; the
\* computed backoff doubles after every retry, whether a 429 or a network
\* error caused it.
\* ------------------------------------------------------------------------
RateLimited(sent) == ~sent.reply.err /\ sent.reply.status = HTTP_RATE_LIMITED

\* how many 429 responses in a row end at request i
RECURSIVE Streak(_, _)
Streak(trace, i) ==
  IF i = 0 \/ ~RateLimited(trace[i]) THEN 0 ELSE 1 + Streak(trace, i - 1)

RECURSIVE Pow2(_)
Pow2(n) == IF n = 0 THEN 1 ELSE 2 * Pow2(n - 1)

C29_RetryBackoff ==
  ev.op = "retry" =>
    /\ Len(ev.reqs) <= MAX_RETRIES
    /\ \A i \in DOMAIN ev.reqs :
         RateLimited(ev.reqs[i]) =>
           IF ev.reqs[i].reply.retry_after.present
             THEN ev.reqs[i].wait = ev.reqs[i].reply.retry_after.seconds
           ELSE ev.reqs[i].wait = RETRY_BACKOFF * Pow2(Streak(ev.reqs, i) - 1)
    /\ \A i \in DOMAIN ev.reqs : ev.reqs[i].delay = RETRY_BACKOFF * Pow2(i - 1)

\* ------------------------------------------------------------------------
\* C30: every landing-page request of the repository adapter carries exactly
\* the minimal header set, User-Agent and Accept, whatever landing fetches
\* and PDF downloads were made before on the same cached session.
\* ------------------------------------------------------------------------
C30_LandingHeadersMinimal ==
  [][(/\ ev'.adapter = "repo" /\ ev'.op = "step"
      /\ \E i \in DOMAIN ev'.reqs :
           /\ ev'.reqs[i].kind = "landing"
           /\ repo_request_headers(sessions.repo, ev'.reqs, i) # CURL_HEADERS)
       => ~RepoStep]_vars

\* ------------------------------------------------------------------------
\* C38: whatever the sequence of responses and network errors, a call of the
\* retrying GET ends by returning a response or by raising the last network
\* error; it never returns without a response.
\* ------------------------------------------------------------------------
C38_ReturnsResponseOrRaises ==
  ev.op = "retry" =>
    \/ /\ ev.result = "response"
       /\ ~ev.reqs[Len(ev.reqs)].reply.err
    \/ /\ ev.result = "raised"
       /\ ev.reqs[Len(ev.reqs)].reply.err

\* ------------------------------------------------------------------------
\* C31: in a crawl run no URL is fetched more than once, and every URL on
\* the traversal stack other than the start URL has the configured domain
\* as its host.  A step that sends a page request fetches the URL on top of
\* the stack; that URL was not in visited_urls and is in it afterwards, and
\* visited_urls never loses a URL while the run goes on.
\* ------------------------------------------------------------------------
FetchesPage(e) == \E i \in DOMAIN e.reqs : e.reqs[i].kind = "page"
Top(stack) == stack[Len(stack)]

C31_FetchedOnceAndInDomain ==
  [][(/\ ev'.adapter = "crawl" /\ ev'.op = "step"
      /\ crawl.pc = "running"
      /\ \/ /\ FetchesPage(ev') /\ crawl.stack # <<>>
            /\ \/ Top(crawl.stack) \in crawl.visited_urls
               \/ Top(crawl.stack) \notin crawl'.visited_urls
         \/ /\ crawl'.pc = "running"
            /\ ~(crawl.visited_urls \subseteq crawl'.visited_urls)
         \/ \E i \in DOMAIN crawl'.stack :
              /\ crawl'.stack[i] # cfg_start_url
              /\ crawl'.stack[i].host # cfg_domain)
       => ~CrawlStep]_vars

\* a URL that two pages had queued was popped a second time and not fetched
C31_QueuedTwiceFetchedOnce ==
  /\ ev.adapter = "crawl" /\ ev.op = "step" /\ ev.check = "visited"
  /\ ev.reqs = NoReqs
  /\ Url("https", cfg_domain, PathAbout, "") \in crawl.visited_urls

\* ------------------------------------------------------------------------
\* C32: among the links newly queued from one crawled page every article
\* link is visited before every issue link and every issue link before every
\* other link, unless links queued from a page visited in between take
\* precedence.  The stack is popped from its end; a step that queues links
\* leaves the rest of the stack as it was and appends exactly the page's
\* links not yet visited, other links lowest, then issue links, article links
\* on top, so that pops meet them in the order article, issue, other.
\* ------------------------------------------------------------------------
\* the part of the stack that the step appended
Queued(before, after) == SubSeq(after, Len(before), Len(after))

C32_QueuedInPriorityOrder ==
  [][(/\ ev'.adapter = "crawl" /\ ev'.op = "step"
      /\ crawl.pc = "running" /\ crawl.stack # <<>>
      /\ \/ /\ FetchesPage(ev')
            /\ crawl'.visited_urls \ crawl.visited_urls # {Top(crawl.stack)}
         \/ /\ ev'.check = "links"
            /\ LET rest == SubSeq(crawl.stack, 1, Len(crawl.stack) - 1)
                   queued == Queued(crawl.stack, crawl'.stack)
                   page == SiteLinks(Top(crawl.stack).path)
               IN ~(/\ SubSeq(crawl'.stack, 1, Len(rest)) = rest
                    /\ \A i \in DOMAIN queued : \A j \in DOMAIN queued :
                         i < j => link_priority(queued[i]) >= link_priority(queued[j])
                    /\ {queued[i] : i \in DOMAIN queued}
                         = {Url("https", page[i].url.host, page[i].url.path, "") :
                              i \in {k \in DOMAIN page :
                                       /\ page[k].kind = "url"
                                       /\ page[k].url.host = cfg_domain}}
                           \ crawl'.visited_urls))
       => ~CrawlStep]_vars

\* the start page was crawled: its article link is on top of the stack, its
\* issue link below it and its other link at the bottom
C32_ArticleOnTopOfIssue ==
  /\ ev.adapter = "crawl" /\ ev.op = "step" /\ ev.check = "links"
  /\ Len(crawl.stack) = 3
  /\ link_priority(crawl.stack[3]) = 0
  /\ link_priority(crawl.stack[2]) = 1
  /\ link_priority(crawl.stack[1]) = 2

\* ------------------------------------------------------------------------
\* C33: a run given an attempt limit N >= 1 makes at most N non-skipped
\* attempts before it stops, in each of the three adapters and whatever the
\* attempts' outcomes: no adapter makes a non-skipped attempt in a run that
\* has already made as many as its limit.  For the open-access and the
\* repository adapter the attempts of the run are counted by `processed`,
\* which every non-skipped attempt raises by one.
\* ------------------------------------------------------------------------
C33_OpenAccessPart ==
  (/\ ev'.adapter = "oa" /\ NonSkipped(ev')
   /\ oa.pc = "running" /\ oa.limit >= 1
   /\ \/ oa.processed >= oa.limit
      \/ oa'.pc = "running" /\ oa'.processed # oa.processed + 1)
    => ~OAStep

C33_RepositoryPart ==
  (/\ ev'.adapter = "repo" /\ NonSkipped(ev')
   /\ repo.pc = "running" /\ repo.limit >= 1
   /\ \/ repo.processed >= repo.limit
      \/ repo'.pc = "running" /\ repo'.processed # repo.processed + 1)
    => ~RepoStep

C33_CrawlPart ==
  (/\ ev'.adapter = "crawl" /\ NonSkipped(ev')
   /\ crawl.pc = "running" /\ crawl.limit >= 1
   /\ crawl.attempted >= crawl.limit)
    => ~CrawlStep

C33_LimitBoundsAttempts ==
  [][C33_OpenAccessPart /\ C33_RepositoryPart /\ C33_CrawlPart]_vars

\* ------------------------------------------------------------------------
\* C34: a continuous run of the open-access adapter without a limit
\* terminates: every candidate becomes downloaded, 'no-oa' or exhausted, and
\* after that the loop exits with 'no more candidates'.  The last step of
\* that: once every article in scope is downloaded, 'no-oa' or exhausted,
\* the next iteration of such a run finds no candidate and ends the run.
\* ------------------------------------------------------------------------
ContinuousUnlimited == oa.pc = "running" /\ oa.continuous /\ oa.limit = 0 /\ ~oa.dry_run

\* downloaded, classified 'no-oa' or exhausted
Settled(d) ==
  \/ articles[d].file # NullPath
  \/ articles[d].availability = "no-oa"
  \/ articles[d].attempts >= max_attempts

AllSettled ==
  \A d \in DOIs : (/\ articles[d].year \in cfg_years[1]..cfg_years[2]
                   /\ articles[d].journal \in cfg_journals) => Settled(d)

C34_ContinuousRunTerminates ==
  [][(/\ ev'.adapter = "oa" /\ ev'.op = "step"
      /\ ContinuousUnlimited /\ AllSettled
      /\ ~(ev'.result = "none" /\ oa'.pc = "idle"))
       => ~OAStep]_vars

\* ------------------------------------------------------------------------
\* C35: a dry run of the open-access or of the repository adapter
\* terminates, with or without a limit and with or without continuous mode,
\* even when eligible candidates exist.  Within the horizon of the model: a
\* dry run leads to the end of the run or to a sleep that ends after the
\* horizon.
\* ------------------------------------------------------------------------
C35_DryRunTerminates ==
  /\ (oa.pc = "running" /\ oa.dry_run) ~> (oa.pc = "idle" \/ oa.wake > MaxTime)
  /\ (repo.pc = "running" /\ repo.dry_run) ~> (repo.pc = "idle" \/ repo.wake > MaxTime)

\* ------------------------------------------------------------------------
\* C36: when two adapter processes working on the same store attempt the
\* same article with overlapping read-then-write steps, the stored attempts
\* afterwards is the previous value plus the number of non-skipped attempts
\* made: here two, one by each process.
\* ------------------------------------------------------------------------
C36_NoIncrementLost ==
  [][(/\ ev'.op = "overlap"
      /\ articles'[ev'.doi].attempts # articles[ev'.doi].attempts + 2)
       => ~OverlappedAttempts]_vars

\* ------------------------------------------------------------------------
\* C37: two articles with distinct DOIs and the same publisher, journal and
\* year are always given distinct storage paths, so a successful download
\* for one article never overwrites the stored PDF of another.
\* ------------------------------------------------------------------------
SameShelf(d1, d2) ==
  /\ articles[d1].publisher = articles[d2].publisher
  /\ articles[d1].journal = articles[d2].journal
  /\ articles[d1].year = articles[d2].year

C37_PathsDistinct ==
  \A d1 \in DOIs : \A d2 \in DOIs \ {d1} :
    SameShelf(d1, d2) => PathOf(d1) # PathOf(d2)

C37_OthersFileUntouched ==
  (/\ ev'.adapter = "oa" /\ ev'.op = "step" /\ ev'.result = "downloaded"
   /\ \E d2 \in DOIs \ {ev'.doi} :
        /\ articles[d2].file # NullPath
        /\ articles'[ev'.doi].file = articles[d2].file)    \* written to d2's file
    => ~OAStep

C37_DistinctPathsNoOverwrite ==
  [][C37_PathsDistinct /\ C37_OthersFileUntouched]_vars

====
